---- MODULE Spec2Model ----
(***************************************************************************)
(* A model of the NRL engine's evaluation core: the point-in-time          *)
(* validator, the feature engineer built on it, the walk-forward fold      *)
(* generators, the odds orientation gate and the harness step that calls   *)
(* the gate.                                                               *)
(*                                                                         *)
(* Dates are day numbers 1, 2, ...; NaT is pandas' "not a time".  A raw    *)
(* date cell is a day number, NaT, or BadDate (a text that does not parse).*)
(* Odds are held in tenths (15 is 1.5), slopes in hundredths (30 is 0.30). *)
(* A missing cell (NaN / None) is NoVal.                                   *)
(***************************************************************************)
EXTENDS Integers, Sequences, FiniteSets, TLC

VARIABLES violations, call_count, pit_call, pit_report, fold_call,
          gate_base, lr_fit, gate_config, gate_df, gate_call, gate_calls, harness,
          fe_data, fe_config, fe_call, metric_call

pitVars == <<violations, call_count, pit_call, pit_report>>

gateVars == <<gate_base, lr_fit, gate_config, gate_df, gate_call, gate_calls>>

vars == <<violations, call_count, pit_call, pit_report, fold_call,
          gate_base, lr_fit, gate_config, gate_df, gate_call, gate_calls, harness,
          fe_data, fe_config, fe_call, metric_call>>

feVars == <<fe_data, fe_config, fe_call>>

(***************************************************************************)
(* Bounds of the model.                                                    *)
(***************************************************************************)
MaxPitRows == 3
MaxCalls == 2
MaxFoldRows == 4
MaxOddsRows == 21
MaxGateCalls == 2
DaysPerYear == 7
MaxFeRows == 3
MaxFeCalls == 1
MaxMatrixRows == 3
MaxRunRows == 5
MaxMetricRows == 3

(***************************************************************************)
(* Values shared by every component.                                       *)
(***************************************************************************)
NaT == 0
BadDate == -1
NoVal == -9
NoCall == [op |-> "none"]

RawDates == {BadDate, 1, 2}
Cutoffs == {NaT, 1, 2, 3}

\* pd.to_datetime(x, errors="coerce"): a day stays, anything else becomes NaT.
ToDatetime(raw) == IF raw >= 1 THEN raw ELSE NaT

\* a comparison that takes an unparsable date as not earlier than the cutoff
DateGEOrNaT(d, asof) == d = NaT \/ (asof # NaT /\ d >= asof)

\* dates >= asof_ts on datetime values: any comparison with NaT is False.
DateGE(d, asof) == d # NaT /\ asof # NaT /\ d >= asof

RECURSIVE SumSeq(_)
SumSeq(s) == IF s = <<>> THEN 0 ELSE Head(s) + SumSeq(Tail(s))

\* every sequence over S of length at most n
SeqsUpTo(S, n) == UNION {[1 .. k -> S] : k \in 0 .. n}

(***************************************************************************)
(* PITValidator (features/pit_validator.py).  A table is a record          *)
(* [has_date |-> the date column exists, rows |-> the rows in order].      *)
(* pit_call and pit_report hold what the most recent call took and         *)
(* returned: a validate call fills pit_call, a report call pit_report.     *)
(***************************************************************************)
\* a filter that lets a row dated on the cutoff through
FutureMaskStrict(row, asof_ts) ==
    ToDatetime(row.date) # NaT /\ asof_ts # NaT /\ ToDatetime(row.date) > asof_ts

\* future_mask = dates >= asof_ts
FutureMask(row, asof_ts) == DateGE(ToDatetime(row.date), asof_ts)

\* a count that takes every row not known to be earlier than the cutoff as blocked
FutureCountNotEarlier(source_df, asof_ts) ==
    Len(SelectSeq(source_df.rows,
                  LAMBDA r : ~(ToDatetime(r.date) # NaT /\ asof_ts # NaT
                               /\ ToDatetime(r.date) < asof_ts)))

\* future_count = future_mask.sum()
FutureCount(source_df, asof_ts) ==
    Len(SelectSeq(source_df.rows, LAMBDA r : FutureMask(r, asof_ts)))

\* the table validate returns
ValidateResult(source_df, asof_ts) ==
    IF source_df.rows = <<>> THEN source_df
    ELSE IF ~source_df.has_date THEN source_df
    ELSE [source_df EXCEPT
            !.rows = SelectSeq(source_df.rows, LAMBDA r : ~FutureMask(r, asof_ts))]

\* a log that takes an entry on every call that reaches the count
ValidateLogAlways(log, feature_name, source_df, asof_ts) ==
    IF source_df.rows = <<>> \/ ~source_df.has_date THEN log
    ELSE Append(log, [feature_name |-> feature_name,
                      asof_timestamp |-> asof_ts,
                      future_rows_blocked |-> FutureCount(source_df, asof_ts)])

\* the violation log after validate
ValidateLog(log, feature_name, source_df, asof_ts) ==
    IF source_df.rows = <<>> \/ ~source_df.has_date THEN log
    ELSE IF FutureCount(source_df, asof_ts) > 0
         THEN Append(log, [feature_name |-> feature_name,
                           asof_timestamp |-> asof_ts,
                           future_rows_blocked |-> FutureCount(source_df, asof_ts)])
         ELSE log

PitRows == {[match_id |-> 0, date |-> d] : d \in RawDates}

PitTables ==
    {[has_date |-> TRUE, rows |-> s] : s \in SeqsUpTo(PitRows, MaxPitRows)}
    \cup {[has_date |-> FALSE, rows |-> [i \in 1 .. k |-> [match_id |-> 0, date |-> NoVal]]] :
             k \in 0 .. MaxPitRows}

GateIdle ==
    /\ gate_base = NoCall
    /\ lr_fit = NoCall
    /\ gate_config = NoCall
    /\ gate_df = NoCall
    /\ gate_call = NoCall
    /\ gate_calls = 0
    /\ harness = [pc |-> "new"]
    /\ fe_data = NoCall
    /\ fe_config = NoCall
    /\ fe_call = NoCall
    /\ metric_call = NoCall

PitIdle ==
    /\ violations = <<>>
    /\ call_count = 0
    /\ pit_call = NoCall
    /\ pit_report = NoCall

InitPIT ==
    /\ PitIdle
    /\ fold_call = NoCall
    /\ GateIdle

Validate ==
    /\ call_count < MaxCalls
    /\ \E source_df \in PitTables, asof_ts \in Cutoffs :
        /\ call_count' = call_count + 1
        /\ violations' = ValidateLog(violations, "f", source_df, asof_ts)
        /\ pit_call' = [op |-> "validate", source_df |-> source_df, asof_ts |-> asof_ts,
                        result |-> ValidateResult(source_df, asof_ts)]
        /\ pit_report' = NoCall
        /\ UNCHANGED <<fold_call, gateVars, harness, feVars, metric_call>>

\* a report that stays CLEAN until a second violation is logged
ReportCleanBelowTwo(log, calls) ==
    IF Len(log) < 2
    THEN [status |-> "CLEAN", total_calls |-> calls, violations_blocked |-> 0,
          total_rows_blocked |-> NoVal]
    ELSE [status |-> "VIOLATIONS_BLOCKED", total_calls |-> calls,
          violations_blocked |-> Len(log),
          total_rows_blocked |-> SumSeq([i \in 1 .. Len(log) |-> log[i].future_rows_blocked])]

ReportOf(log, calls) ==
    IF log = <<>>
    THEN [status |-> "CLEAN", total_calls |-> calls, violations_blocked |-> 0,
          total_rows_blocked |-> NoVal]
    ELSE [status |-> "VIOLATIONS_BLOCKED", total_calls |-> calls,
          violations_blocked |-> Len(log),
          total_rows_blocked |-> SumSeq([i \in 1 .. Len(log) |-> log[i].future_rows_blocked])]

Report ==
    /\ pit_report' = ReportOf(violations, call_count)
    /\ pit_call' = NoCall
    /\ UNCHANGED <<violations, call_count, fold_call, gateVars, harness, feVars, metric_call>>

Reset ==
    /\ violations' = <<>>
    /\ call_count' = 0
    /\ pit_call' = NoCall
    /\ pit_report' = NoCall
    /\ UNCHANGED <<fold_call, gateVars, harness, feVars, metric_call>>

is_clean == Len(violations) = 0

NextPIT == Validate \/ Report \/ Reset

SpecPIT == InitPIT /\ [][NextPIT]_vars

(***************************************************************************)
(* C2.  The claim as stated: every row validate returns has a date-field   *)
(* value strictly earlier than the cutoff.  It is stated here for the      *)
(* calls it is most at home with, a table that has the date column and a   *)
(* cutoff that is a valid timestamp.                                       *)
(***************************************************************************)
C2_AllReturnedBeforeCutoff ==
    (pit_call.op = "validate" /\ pit_call.source_df.has_date /\ pit_call.asof_ts # NaT) =>
        \A i \in 1 .. Len(pit_call.result.rows) :
            LET d == ToDatetime(pit_call.result.rows[i].date) IN
            d # NaT /\ d < pit_call.asof_ts

\* C2 as amended: for a table that has the date column and a cutoff that is a
\* valid timestamp, every returned row has an unparsable date or a date strictly
\* earlier than the cutoff, and the returned rows are exactly those rows, in order.
C2_ParsedReturnedBeforeCutoff ==
    (pit_call.op = "validate" /\ pit_call.source_df.has_date /\ pit_call.asof_ts # NaT) =>
        /\ \A i \in 1 .. Len(pit_call.result.rows) :
              LET d == ToDatetime(pit_call.result.rows[i].date) IN
              d = NaT \/ d < pit_call.asof_ts
        /\ pit_call.result.rows =
              SelectSeq(pit_call.source_df.rows,
                        LAMBDA r : ToDatetime(r.date) = NaT
                                   \/ ToDatetime(r.date) < pit_call.asof_ts)

\* a call that kept one dated row and excluded another
C2_Witness ==
      ( /\ pit_call.op = "validate"
        /\ pit_call.asof_ts # NaT
        /\ Len(pit_call.result.rows) >= 1
        /\ Len(pit_call.result.rows) < Len(pit_call.source_df.rows)
        /\ \E i \in 1 .. Len(pit_call.result.rows) :
              ToDatetime(pit_call.result.rows[i].date) # NaT )

\* rows a validate call took in and did not return
Excluded(call) == Len(call.source_df.rows) - Len(call.result.rows)

LogTotal(log) == SumSeq([i \in 1 .. Len(log) |-> log[i].future_rows_blocked])

(***************************************************************************)
(* C12.  A validate call that excludes at least one row records a blocked  *)
(* count equal to the number of input rows minus the number of returned    *)
(* rows, so the counts in the log grow by exactly that number on every     *)
(* call and go back to zero on reset; report()'s total_rows_blocked is the *)
(* sum of the counts in the log, hence the sum of the rows excluded by all *)
(* calls since the last reset.                                             *)
(***************************************************************************)
C12_BlockedCountExact ==
    [][ /\ (pit_call'.op = "validate") =>
              /\ LogTotal(violations') = LogTotal(violations) + Excluded(pit_call')
              /\ Excluded(pit_call') > 0 =>
                    /\ Len(violations') = Len(violations) + 1
                    /\ violations'[Len(violations')].future_rows_blocked = Excluded(pit_call')
        /\ (pit_report' # NoCall /\ pit_report'.status = "VIOLATIONS_BLOCKED") =>
              /\ violations' = violations
              /\ pit_report'.total_rows_blocked = LogTotal(violations)
        /\ (pit_call' = NoCall /\ pit_report' = NoCall) =>
              LogTotal(violations') = 0 ]_vars

\* a report after two calls that each excluded rows, while unparsable rows were kept
C12_Witness ==
      ( /\ pit_report # NoCall
        /\ pit_report.status = "VIOLATIONS_BLOCKED"
        /\ pit_report.violations_blocked = 2
        /\ pit_report.total_rows_blocked >= 3 )

(***************************************************************************)
(* C13.  Every validate call, on an empty table and on a table without the *)
(* date column too, returns a table and adds exactly one to the call       *)
(* counter; it appends one violation entry (feature name, cutoff, count)   *)
(* if and only if it excluded at least one row, and otherwise leaves the   *)
(* log as it was, so a clean validator stays clean.                        *)
(***************************************************************************)
C13_CallCountedLoggedIffExcluded ==
    [][ (pit_call'.op = "validate") =>
          /\ call_count' = call_count + 1
          /\ pit_call'.result.has_date = pit_call'.source_df.has_date
          /\ IF Excluded(pit_call') > 0
             THEN violations' =
                    Append(violations,
                           [feature_name |-> "f",
                            asof_timestamp |-> pit_call'.asof_ts,
                            future_rows_blocked |-> Excluded(pit_call')])
             ELSE /\ violations' = violations
                  /\ (Len(violations) = 0 => Len(violations') = 0) ]_vars

\* a second call, on a table without the date column, that left the validator clean
C13_Witness ==
      ( /\ pit_call.op = "validate"
        /\ ~pit_call.source_df.has_date
        /\ Len(pit_call.source_df.rows) >= 1
        /\ call_count = 2
        /\ is_clean )

(***************************************************************************)
(* Fold generators (evaluation/folds.py).  A table is                      *)
(* [has_season |-> the season column exists, rows |-> the rows in order];  *)
(* a row's season is a year number or NoVal (NaN).  None is an omitted     *)
(* argument.                                                               *)
(***************************************************************************)
\* an omitted integer argument, and an omitted list argument
None == NoVal
NoneList == <<NoVal>>

FoldSeasons == {1, 2, 3}

\* min_train_seasons or config.min_train_seasons: 0 and None are both falsy
OrDefault(arg, config_value) == IF arg = None \/ arg = 0 THEN config_value ELSE arg

\* sorted(df["season"].dropna().unique()) as a set; SortedSeq gives the list
AvailableSeasons(df) == {df.rows[i].season : i \in 1 .. Len(df.rows)} \ {NoVal}

RECURSIVE SortedSeq(_)
SortedSeq(S) ==
    IF S = {} THEN <<>>
    ELSE LET m == CHOOSE x \in S : \A y \in S : x <= y
         IN <<m>> \o SortedSeq(S \ {m})

PriorCount(avail, s) == Cardinality({prev \in avail : prev < s})

\* prior_seasons[-train_window:]; a window of 0 is the slice [-0:], the whole list
LastN(seq, n) ==
    IF n = 0 THEN seq
    ELSE IF n >= Len(seq) THEN seq
    ELSE SubSeq(seq, Len(seq) - n + 1, Len(seq))

SeqToSet(seq) == {seq[i] : i \in 1 .. Len(seq)}

\* a training set that takes in the test season itself
TrainSeasonsUpTo(avail, test_season) == {s \in avail : s <= test_season}

\* train_seasons = [s for s in available_seasons if s < test_season]
TrainSeasonsBefore(avail, test_season) == {s \in avail : s < test_season}

\* a size check that lets a test subset one row short through
TestSubsetShortByTwo(test_df, min_test_matches) == Len(test_df) < min_test_matches - 1

\* if len(test_df) < min_test_matches: continue
TestSubsetTooSmall(test_df, min_test_matches) == Len(test_df) < min_test_matches

NoFolds == [raised |-> FALSE, folds |-> <<>>]
RaisedFolds == [raised |-> TRUE, folds |-> <<>>]

\* the loop of create_anchored_folds over test_seasons
RECURSIVE AnchoredLoop(_, _, _, _, _)
AnchoredLoop(df, test_seasons, min_train_seasons, min_test_matches, acc) ==
    IF acc.raised \/ test_seasons = <<>> THEN acc
    ELSE
    LET test_season == Head(test_seasons)
        train_seasons == TrainSeasonsBefore(AvailableSeasons(df), test_season)
        train_df == SelectSeq(df.rows, LAMBDA r : r.season \in train_seasons)
        test_df == SelectSeq(df.rows, LAMBDA r : r.season = test_season)
        rest == Tail(test_seasons)
    IN  IF Cardinality(train_seasons) < min_train_seasons
        THEN AnchoredLoop(df, rest, min_train_seasons, min_test_matches, acc)
        ELSE IF TestSubsetTooSmall(test_df, min_test_matches)
        THEN AnchoredLoop(df, rest, min_train_seasons, min_test_matches, acc)
        ELSE IF train_seasons = {}
        THEN RaisedFolds  \* min(train_seasons) in the print raises ValueError
        ELSE AnchoredLoop(df, rest, min_train_seasons, min_test_matches,
                [acc EXCEPT !.folds =
                    Append(@, [fold_id |-> Len(@) + 1, test_season |-> test_season,
                               train_df |-> train_df, test_df |-> test_df])])

create_anchored_folds(df, test_seasons, min_train_arg, min_test_arg, config) ==
    LET min_train_seasons == OrDefault(min_train_arg, config.min_train_seasons)
        min_test_matches == OrDefault(min_test_arg, config.min_test_matches)
        avail == AvailableSeasons(df)
        seasons == IF test_seasons = NoneList
                   THEN SortedSeq({s \in avail : PriorCount(avail, s) >= min_train_seasons})
                   ELSE test_seasons
    IN  IF ~df.has_season THEN RaisedFolds
        ELSE AnchoredLoop(df, seasons, min_train_seasons, min_test_matches, NoFolds)

\* the loop of create_rolling_folds over test_seasons
RECURSIVE RollingLoop(_, _, _, _, _)
RollingLoop(df, test_seasons, train_window, min_test_matches, acc) ==
    IF acc.raised \/ test_seasons = <<>> THEN acc
    ELSE
    LET test_season == Head(test_seasons)
        prior_seasons == SortedSeq(TrainSeasonsBefore(AvailableSeasons(df), test_season))
        train_seasons == SeqToSet(LastN(prior_seasons, train_window))
        train_df == SelectSeq(df.rows, LAMBDA r : r.season \in train_seasons)
        test_df == SelectSeq(df.rows, LAMBDA r : r.season = test_season)
        rest == Tail(test_seasons)
    IN  IF Len(prior_seasons) < train_window
        THEN RollingLoop(df, rest, train_window, min_test_matches, acc)
        ELSE IF TestSubsetTooSmall(test_df, min_test_matches)
        THEN RollingLoop(df, rest, train_window, min_test_matches, acc)
        ELSE IF train_seasons = {}
        THEN RaisedFolds
        ELSE RollingLoop(df, rest, train_window, min_test_matches,
                [acc EXCEPT !.folds =
                    Append(@, [fold_id |-> Len(@) + 1, test_season |-> test_season,
                               train_df |-> train_df, test_df |-> test_df])])

create_rolling_folds(df, test_seasons, train_window, min_test_arg, config) ==
    LET min_test_matches == OrDefault(min_test_arg, config.min_test_matches)
        avail == AvailableSeasons(df)
        seasons == IF test_seasons = NoneList
                   THEN SortedSeq({s \in avail : PriorCount(avail, s) >= train_window})
                   ELSE test_seasons
    IN  IF ~df.has_season THEN RaisedFolds
        ELSE RollingLoop(df, seasons, train_window, min_test_matches, NoFolds)

\* inputs of the fold generators
FoldTables ==
    {[has_season |-> TRUE,
      rows |-> [i \in 1 .. Len(s) |-> [match_id |-> i, season |-> s[i]]]] :
         s \in SeqsUpTo(FoldSeasons \cup {NoVal}, MaxFoldRows)}
    \cup {[has_season |-> FALSE, rows |-> <<[match_id |-> 1, season |-> NoVal]>>]}

TestSeasonLists ==
    {NoneList} \cup {<<a>> : a \in FoldSeasons \cup {4}}
           \cup {<<a, b>> : a \in FoldSeasons, b \in FoldSeasons \cup {4}}

FoldConfigs ==
    {[min_train_seasons |-> 2, min_test_matches |-> 2],
     [min_train_seasons |-> 1, min_test_matches |-> 1],
     [min_train_seasons |-> 0, min_test_matches |-> 1]}

MinTrainArgs == {None, 0, 1}
MinTestArgs == {None, 0, 2}
TrainWindows == {0, 1, 2}

InitFolds ==
    /\ PitIdle
    /\ fold_call = NoCall
    /\ GateIdle

CreateAnchoredFolds ==
    /\ fold_call = NoCall
    /\ \E df \in FoldTables, ts \in TestSeasonLists, mtr \in MinTrainArgs,
          mte \in MinTestArgs, config \in FoldConfigs :
        /\ fold_call' = [op |-> "anchored", df |-> df, test_seasons |-> ts,
                         min_train_arg |-> mtr, min_test_arg |-> mte, config |-> config,
                         train_window |-> NoVal,
                         result |-> create_anchored_folds(df, ts, mtr, mte, config)]
        /\ UNCHANGED <<pitVars, gateVars, harness, feVars, metric_call>>

CreateRollingFolds ==
    /\ fold_call = NoCall
    /\ \E df \in FoldTables, ts \in TestSeasonLists, w \in TrainWindows,
          mte \in MinTestArgs, config \in FoldConfigs :
        /\ fold_call' = [op |-> "rolling", df |-> df, test_seasons |-> ts,
                         min_train_arg |-> NoVal, min_test_arg |-> mte, config |-> config,
                         train_window |-> w,
                         result |-> create_rolling_folds(df, ts, w, mte, config)]
        /\ UNCHANGED <<pitVars, gateVars, harness, feVars, metric_call>>

NextFolds == CreateAnchoredFolds \/ CreateRollingFolds

SpecFolds == InitFolds /\ [][NextFolds]_vars

FoldSeasonsOf(rows) == {rows[i].season : i \in 1 .. Len(rows)}

(***************************************************************************)
(* C3.  Every fold returned by create_anchored_folds trains on rows of     *)
(* seasons strictly less than its test season, and on all rows of every    *)
(* available season less than the test season.                             *)
(***************************************************************************)
C3_AnchoredTrainBeforeTest ==
    fold_call.op = "anchored" =>
        \A k \in 1 .. Len(fold_call.result.folds) :
            LET f == fold_call.result.folds[k] IN
            /\ \A i \in 1 .. Len(f.train_df) :
                  f.train_df[i].season # NoVal /\ f.train_df[i].season < f.test_season
            /\ f.train_df =
                  SelectSeq(fold_call.df.rows,
                            LAMBDA r : r.season # NoVal /\ r.season < f.test_season)

\* a returned anchored fold that trains on two seasons
C3_Witness ==
      ( /\ fold_call.op = "anchored"
        /\ \E k \in 1 .. Len(fold_call.result.folds) :
              Cardinality(FoldSeasonsOf(fold_call.result.folds[k].train_df)) >= 2 )

(***************************************************************************)
(* C4.  Every fold returned by create_rolling_folds with window W trains   *)
(* on exactly the W most recent available seasons strictly earlier than    *)
(* the test season, and a test season with fewer than W prior seasons      *)
(* yields no fold.                                                         *)
(***************************************************************************)
C4_RollingWindowExact ==
    fold_call.op = "rolling" =>
        \A k \in 1 .. Len(fold_call.result.folds) :
            LET f == fold_call.result.folds[k]
                W == fold_call.train_window
                prior == {s \in AvailableSeasons(fold_call.df) : s < f.test_season}
                trained == FoldSeasonsOf(f.train_df)
            IN
            /\ Cardinality(prior) >= W
            /\ Cardinality(trained) = W
            /\ trained \subseteq prior
            /\ \A s \in prior \ trained : \A t \in trained : s < t
            /\ f.train_df = SelectSeq(fold_call.df.rows, LAMBDA r : r.season \in trained)

\* the minimum test-subset size a call works with, and its candidate test seasons
EffectiveMinTest(call) == OrDefault(call.min_test_arg, call.config.min_test_matches)

CandidateSeasons(call) ==
    IF call.test_seasons # NoneList THEN SeqToSet(call.test_seasons)
    ELSE LET avail == AvailableSeasons(call.df)
             need == IF call.op = "rolling" THEN call.train_window
                     ELSE OrDefault(call.min_train_arg, call.config.min_train_seasons)
         IN  {s \in avail : PriorCount(avail, s) >= need}

SeasonRows(df, season) == SelectSeq(df.rows, LAMBDA r : r.season = season)

(***************************************************************************)
(* C15.  Under both fold policies a candidate test season whose test       *)
(* subset has fewer rows than the minimum in force produces no fold and no *)
(* error: every returned fold's test subset has at least that many rows    *)
(* and is exactly the rows of the fold's own test season, and a call       *)
(* raises only over a candidate season that has enough test rows.          *)
(***************************************************************************)
C15_SmallTestSeasonDropped ==
    (fold_call.op # "none" /\ fold_call.df.has_season) =>
        /\ \A k \in 1 .. Len(fold_call.result.folds) :
              LET f == fold_call.result.folds[k] IN
              /\ Len(f.test_df) >= EffectiveMinTest(fold_call)
              /\ Len(f.test_df) >= 1
              /\ f.test_df = SeasonRows(fold_call.df, f.test_season)
              /\ f.test_season \in CandidateSeasons(fold_call)
        /\ fold_call.result.raised =>
              \E s \in CandidateSeasons(fold_call) :
                  Len(SeasonRows(fold_call.df, s)) >= EffectiveMinTest(fold_call)

\* a call with one candidate season dropped for its size and another returned as a fold
C15_Witness ==
      ( /\ fold_call.op # "none"
        /\ ~fold_call.result.raised
        /\ Len(fold_call.result.folds) >= 1
        /\ \E s \in CandidateSeasons(fold_call) :
              /\ Len(SeasonRows(fold_call.df, s)) >= 1
              /\ Len(SeasonRows(fold_call.df, s)) < EffectiveMinTest(fold_call)
              /\ PriorCount(AvailableSeasons(fold_call.df), s) >= 1 )

(***************************************************************************)
(* Match tables.  A table is [columns |-> the column names present,        *)
(* rows |-> the rows in order]; the cell of an absent column is NoVal.     *)
(***************************************************************************)
OddsOne == 10
MinSlopeRows == 20

Year(date) == ((date - 1) \div DaysPerYear) + 1

\* ascending sort on date, NaT last, ties in their original order
DateKey(d) == IF d = NaT THEN MaxOddsRows + 100 ELSE d

RECURSIVE InsertByDate(_, _)
InsertByDate(sorted, r) ==
    IF sorted = <<>> THEN <<r>>
    ELSE IF DateKey(Head(sorted).date) <= DateKey(r.date)
         THEN <<Head(sorted)>> \o InsertByDate(Tail(sorted), r)
         ELSE <<r>> \o sorted

RECURSIVE SortByDate(_)
SortByDate(rows) ==
    IF rows = <<>> THEN <<>>
    ELSE InsertByDate(SortByDate(SubSeq(rows, 1, Len(rows) - 1)), rows[Len(rows)])

(***************************************************************************)
(* Odds orientation gate (evaluation/odds_gate.py).                        *)
(***************************************************************************)
GateRequired == {"home_odds_close", "away_odds_close", "home_win"}

\* mask: both odds present and both > 1.0
ValidOdds(r) ==
    /\ r.home_odds_close # NoVal
    /\ r.away_odds_close # NoVal
    /\ r.home_odds_close > OddsOne
    /\ r.away_odds_close > OddsOne

ValidOddsPairs(df) ==
    LET d == SelectSeq(df.rows, ValidOdds)
    IN  [i \in 1 .. Len(d) |-> <<d[i].home_odds_close, d[i].away_odds_close>>]

\* LogisticRegression.fit on the de-vigged log-odds: a library call.  Its result
\* is a fixed but unknown function of the odds it is given (lr_fit, drawn once);
\* NoVal stands for a fit that raised.
FitSlope(df, base, fit) ==
    IF ValidOddsPairs(df) = ValidOddsPairs(base) THEN fit.as_is ELSE fit.swapped

\* if len(d) < 20
SlopeMinRows(config) == MinSlopeRows

_compute_market_slope(df, config, base, fit) ==
    IF ~(GateRequired \subseteq df.columns)
    THEN [error |-> TRUE, n |-> NoVal, slope |-> NoVal]
    ELSE LET n == Len(SelectSeq(df.rows, ValidOdds)) IN
         IF n < SlopeMinRows(config)
         THEN [error |-> TRUE, n |-> NoVal, slope |-> NoVal]
         ELSE IF FitSlope(df, base, fit) = NoVal
              THEN [error |-> TRUE, n |-> n, slope |-> NoVal]
              ELSE [error |-> FALSE, n |-> n, slope |-> FitSlope(df, base, fit)]

\* a swap that overwrites the home odds and leaves the away odds
HalfSwapOdds(df) ==
    [df EXCEPT !.rows = [i \in 1 .. Len(df.rows) |->
        [df.rows[i] EXCEPT !.home_odds_close = df.rows[i].away_odds_close]]]

\* df_swapped[[home, away]] = df_swapped[[away, home]].values
SwapOdds(df) ==
    [df EXCEPT !.rows = [i \in 1 .. Len(df.rows) |->
        [df.rows[i] EXCEPT !.home_odds_close = df.rows[i].away_odds_close,
                           !.away_odds_close = df.rows[i].home_odds_close]]]

is_healthy(m, config) ==
    ~m.error /\ m.slope # NoVal /\ m.slope > config.odds_min_healthy_slope

\* a gate that swaps the caller's table where it stands
InputSwappedInPlace(df) == SwapOdds(df)

\* the caller's table after the call: the swap is made on df.copy()
InputAfterGate(df) == df

GateReport(m_as_is, m_swapped, config, chosen, action) ==
    [error |-> FALSE, as_is |-> m_as_is, swapped |-> m_swapped,
     as_is_healthy |-> is_healthy(m_as_is, config),
     swapped_healthy |-> is_healthy(m_swapped, config),
     chosen |-> chosen, action |-> action]

\* a tie-break that prefers the swapped orientation on equal slopes
SwappedBetterOrEqual(s1, s2) == s2 >= s1

\* if s2 > s1
SwappedBetter(s1, s2) == s2 > s1

\* a decision that swaps whenever the swapped orientation is healthy
DecideSwapFirst(as_is_healthy, swapped_healthy, s1, s2) ==
    IF swapped_healthy THEN "swapped"
    ELSE IF as_is_healthy THEN "as_is"
    ELSE "unknown"

\* the decision logic: which orientation the gate chooses
Decide(as_is_healthy, swapped_healthy, s1, s2) ==
    IF as_is_healthy /\ ~swapped_healthy THEN "as_is"
    ELSE IF swapped_healthy /\ ~as_is_healthy THEN "swapped"
    ELSE IF as_is_healthy /\ swapped_healthy
         THEN (IF SwappedBetter(s1, s2) THEN "swapped" ELSE "as_is")
    ELSE "unknown"

\* a gate that returns the ambiguous verdict even when told to fail
NeverRaise(config) == FALSE

\* if config.odds_fail_on_ambiguous: raise ValueError
RaiseOnAmbiguous(config) == config.odds_fail_on_ambiguous

\* the result of one call: what is returned (or that it raised) and the caller's
\* table afterwards
enforce_odds_orientation(df, config, base, fit) ==
    IF ~(GateRequired \subseteq df.columns)
    THEN [raised |-> FALSE, df |-> df, input_after |-> df,
          report |-> [error |-> TRUE, chosen |-> "error", action |-> "none"]]
    ELSE
    LET m_as_is == _compute_market_slope(df, config, base, fit)
        df_swapped == SwapOdds(df)
        m_swapped == _compute_market_slope(df_swapped, config, base, fit)
        as_is_healthy == is_healthy(m_as_is, config)
        swapped_healthy == is_healthy(m_swapped, config)
        chosen == Decide(as_is_healthy, swapped_healthy, m_as_is.slope, m_swapped.slope)
        after == InputAfterGate(df)
    IN  IF chosen = "as_is"
        THEN [raised |-> FALSE, df |-> after, input_after |-> after,
              report |-> GateReport(m_as_is, m_swapped, config, "as_is", "none")]
        ELSE IF chosen = "swapped"
        THEN (IF config.odds_auto_fix
              THEN [raised |-> FALSE, df |-> df_swapped, input_after |-> after,
                    report |-> GateReport(m_as_is, m_swapped, config, "swapped", "auto_swapped")]
              ELSE [raised |-> FALSE, df |-> after, input_after |-> after,
                    report |-> GateReport(m_as_is, m_swapped, config, "swapped",
                                          "manual_fix_needed")])
        ELSE IF RaiseOnAmbiguous(config)
        THEN [raised |-> TRUE, df |-> NoVal, input_after |-> after, report |-> NoVal]
        ELSE [raised |-> FALSE, df |-> after, input_after |-> after,
              report |-> GateReport(m_as_is, m_swapped, config, "unknown",
                                    "investigation_needed")]

(***************************************************************************)
(* Inputs of the gate: tables of MaxOddsRows - 2 .. MaxOddsRows matches,   *)
(* one a day, home wins on odd days.                                       *)
(***************************************************************************)
OddsPatterns == {"favourite", "even"}

HomeOdds(i, pattern) == IF pattern = "even" THEN 19 ELSE IF i % 2 = 1 THEN 15 ELSE 30
AwayOdds(i, pattern) == IF pattern = "even" THEN 19 ELSE IF i % 2 = 1 THEN 25 ELSE 14

\* row 1 may lack its home odds and carry a date that does not parse; row 2 may
\* carry away odds of exactly 1.0
OddsRow(i, pattern, bad, columns) ==
    [match_id |-> i,
     date |-> IF i = 1 /\ 1 \in bad THEN BadDate ELSE i,
     home_team |-> IF i % 2 = 1 THEN "A" ELSE "B",
     away_team |-> IF i % 2 = 1 THEN "B" ELSE "A",
     home_score |-> IF i % 2 = 1 THEN 2 ELSE 0,
     away_score |-> IF i % 2 = 1 THEN 0 ELSE 2,
     home_win |-> IF "home_win" \in columns THEN i % 2 ELSE NoVal,
     season |-> NoVal,
     home_odds_close |-> IF "home_odds_close" \notin columns \/ (i = 1 /\ 1 \in bad)
                         THEN NoVal ELSE HomeOdds(i, pattern),
     away_odds_close |-> IF "away_odds_close" \notin columns THEN NoVal
                         ELSE IF i = 2 /\ 2 \in bad THEN OddsOne
                         ELSE AwayOdds(i, pattern)]

BaseColumns == {"match_id", "date", "home_team", "away_team", "home_score", "away_score"}

ColumnChoices ==
    {BaseColumns \cup GateRequired,
     BaseColumns \cup {"home_odds_close", "away_odds_close"},
     BaseColumns \cup {"home_win"},
     BaseColumns \cup {"home_win", "home_odds_close"}}

OddsTables ==
    {[columns |-> c, rows |-> [i \in 1 .. n |-> OddsRow(i, p, bad, c)]] :
        c \in ColumnChoices, n \in (MaxOddsRows - 2) .. MaxOddsRows,
        p \in OddsPatterns, bad \in SUBSET {1, 2}}

FitOutcomes == {NoVal, -50, 40, 50}

GateConfigs ==
    [odds_min_healthy_slope : {30, 40}, odds_min_rows : {19, 20},
     odds_auto_fix : BOOLEAN, odds_fail_on_ambiguous : BOOLEAN]

(***************************************************************************)
(* EvaluationHarness._prepare_data (evaluation/harness.py).                *)
(***************************************************************************)
\* the table handed to the gate: dates parsed, undated rows dropped, sorted,
\* home_win and season derived where the column is absent
PreparedTable(raw) ==
    LET parsed == [i \in 1 .. Len(raw.rows) |->
                      [raw.rows[i] EXCEPT !.date = ToDatetime(raw.rows[i].date)]]
        kept == SelectSeq(parsed, LAMBDA r : r.match_id # NoVal /\ r.date # NaT)
        sorted == SortByDate(kept)
        derived == [i \in 1 .. Len(sorted) |->
                      [sorted[i] EXCEPT
                         !.home_win = IF "home_win" \in raw.columns THEN @
                                      ELSE IF sorted[i].home_score > sorted[i].away_score
                                           THEN 1 ELSE 0,
                         !.season = IF "season" \in raw.columns THEN @
                                    ELSE Year(sorted[i].date)]]
    IN  [columns |-> raw.columns \cup {"home_win", "season"}, rows |-> derived]

PrepareMissing(raw) ==
    \/ "date" \notin raw.columns
    \/ "match_id" \notin raw.columns
    \/ ("home_win" \notin raw.columns
        /\ ~({"home_score", "away_score"} \subseteq raw.columns))

has_odds(df) == {"home_odds_close", "away_odds_close"} \subseteq df.columns

\* the processing steps _prepare_data has performed on the table when it returns or
\* fails, the gate aside: self.data["date"] fails first, dropna(subset=["match_id",
\* "date"]) after the dates were normalised, the label derivation after that
PrepareSteps(raw) ==
    IF "date" \notin raw.columns THEN <<>>
    ELSE IF PrepareMissing(raw) THEN <<"date_normalization">>
    ELSE <<"date_normalization", "label_derivation">>

_prepare_data(raw, config, base, fit) ==
    IF PrepareMissing(raw)
    THEN [pc |-> "failed", error |-> "KeyError", steps |-> PrepareSteps(raw)]
    ELSE LET data == PreparedTable(raw) IN
         IF has_odds(data)
         THEN LET g == enforce_odds_orientation(data, config, base, fit) IN
              IF g.raised
              THEN [pc |-> "failed", error |-> "ValueError", gate_input |-> data,
                    steps |-> Append(PrepareSteps(raw), "odds_gate")]
              ELSE [pc |-> "prepared", data |-> g.df, odds_report |-> g.report,
                    gate_input |-> data, steps |-> Append(PrepareSteps(raw), "odds_gate")]
         ELSE [pc |-> "prepared", data |-> data, gate_input |-> NoVal,
               odds_report |-> [error |-> FALSE, chosen |-> "no_odds", action |-> "skipped"],
               steps |-> PrepareSteps(raw)]

InitGate ==
    /\ PitIdle
    /\ fold_call = NoCall
    /\ gate_base \in OddsTables
    /\ lr_fit \in [as_is : FitOutcomes, swapped : FitOutcomes]
    /\ gate_config \in GateConfigs
    /\ gate_df = gate_base
    /\ gate_call = NoCall
    /\ gate_calls = 0
    /\ harness = [pc |-> "new"]
    /\ fe_data = NoCall
    /\ fe_config = NoCall
    /\ fe_call = NoCall
    /\ metric_call = NoCall

\* one call of the gate on the table the caller holds; the caller goes on with
\* the table the gate returned
EnforceOddsOrientation ==
    /\ gate_calls < MaxGateCalls
    /\ LET g == enforce_odds_orientation(gate_df, gate_config, gate_base, lr_fit) IN
       /\ gate_call' = [op |-> "gate", input |-> gate_df, input_after |-> g.input_after,
                        raised |-> g.raised, output |-> g.df, report |-> g.report]
       /\ gate_df' = IF g.raised THEN gate_df ELSE g.df
    /\ gate_calls' = gate_calls + 1
    /\ UNCHANGED <<pitVars, fold_call, gate_base, lr_fit, gate_config, harness, feVars, metric_call>>

\* the harness prepares the raw table under the same configuration
HarnessPrepareData ==
    /\ harness.pc = "new"
    /\ harness' = _prepare_data(gate_base, gate_config, gate_base, lr_fit)
    /\ UNCHANGED <<pitVars, fold_call, gateVars, feVars, metric_call>>

NextGate == EnforceOddsOrientation \/ HarnessPrepareData

SpecGate == InitGate /\ [][NextGate]_vars

(***************************************************************************)
(* Vocabulary of the gate's claims.                                        *)
(***************************************************************************)
GateReturned == gate_call.op = "gate" /\ ~gate_call.raised /\ ~gate_call.report.error

\* b is a with the two odds columns exchanged and nothing else changed
OddsExchanged(a, b) ==
    /\ a.columns = b.columns
    /\ Len(a.rows) = Len(b.rows)
    /\ \A i \in 1 .. Len(a.rows) :
          b.rows[i] = [a.rows[i] EXCEPT !.home_odds_close = a.rows[i].away_odds_close,
                                        !.away_odds_close = a.rows[i].home_odds_close]

ExchangedTable(a) ==
    [columns |-> a.columns,
     rows |-> [i \in 1 .. Len(a.rows) |->
                 [a.rows[i] EXCEPT !.home_odds_close = a.rows[i].away_odds_close,
                                   !.away_odds_close = a.rows[i].home_odds_close]]]

HealthyTable(df) ==
    is_healthy(_compute_market_slope(df, gate_config, gate_base, lr_fit), gate_config)

ValidCount(df) == Len(SelectSeq(df.rows, ValidOdds))

(***************************************************************************)
(* C5.  The gate's outcome follows the decision table: (yes, no) keeps the *)
(* data as it is with action none; (no, yes) chooses swapped, exchanging   *)
(* the odds columns under auto-fix and otherwise asking for a manual fix;  *)
(* (yes, yes) chooses the strictly higher slope, a tie going to as_is.     *)
(***************************************************************************)
C5_DecisionTable ==
    GateReturned =>
        LET rep == gate_call.report
            h1 == rep.as_is_healthy
            h2 == rep.swapped_healthy
        IN
        /\ (h1 /\ ~h2) =>
              /\ rep.chosen = "as_is"
              /\ rep.action = "none"
              /\ gate_call.output = gate_call.input
        /\ (~h1 /\ h2) =>
              /\ rep.chosen = "swapped"
              /\ IF gate_config.odds_auto_fix
                 THEN /\ rep.action = "auto_swapped"
                      /\ OddsExchanged(gate_call.input, gate_call.output)
                 ELSE /\ rep.action = "manual_fix_needed"
                      /\ gate_call.output = gate_call.input
        /\ (h1 /\ h2) =>
              rep.chosen = IF rep.swapped.slope > rep.as_is.slope THEN "swapped" ELSE "as_is"

\* both orientations healthy on equal slopes
C5_Witness ==
    /\ GateReturned
    /\ gate_call.report.as_is_healthy
    /\ gate_call.report.swapped_healthy
    /\ gate_call.report.as_is.slope = gate_call.report.swapped.slope
    /\ gate_call.report.chosen = "as_is"

(***************************************************************************)
(* C6.  An orientation is healthy exactly when the number of rows with     *)
(* valid odds is at least the configured odds_min_rows and the fitted      *)
(* slope is strictly greater than the configured odds_min_healthy_slope.   *)
(***************************************************************************)
C6_HealthyIffConfiguredThresholds ==
    GateReturned =>
        (gate_call.report.as_is_healthy <=>
            /\ ValidCount(gate_call.input) >= gate_config.odds_min_rows
            /\ FitSlope(gate_call.input, gate_base, lr_fit) # NoVal
            /\ FitSlope(gate_call.input, gate_base, lr_fit) > gate_config.odds_min_healthy_slope)

(***************************************************************************)
(* C7.  With neither orientation healthy the gate raises when              *)
(* odds_fail_on_ambiguous is set; otherwise it returns the input untouched *)
(* with chosen unknown and action investigation_needed, and the harness    *)
(* goes on with the unmodified data.                                       *)
(***************************************************************************)
NeitherHealthy(df) ==
    /\ GateRequired \subseteq df.columns
    /\ ~HealthyTable(df)
    /\ ~HealthyTable(ExchangedTable(df))

C7_AmbiguousOrientation ==
    /\ (gate_call.op = "gate" /\ NeitherHealthy(gate_call.input)) =>
          IF gate_config.odds_fail_on_ambiguous
          THEN gate_call.raised
          ELSE /\ ~gate_call.raised
               /\ gate_call.output = gate_call.input
               /\ gate_call.report.chosen = "unknown"
               /\ gate_call.report.action = "investigation_needed"
    /\ (harness.pc # "new" /\ has_odds(gate_base) /\ NeitherHealthy(PreparedTable(gate_base))) =>
          IF gate_config.odds_fail_on_ambiguous
          THEN harness.pc = "failed"
          ELSE /\ harness.pc = "prepared"
               /\ harness.data = PreparedTable(gate_base)
               /\ harness.odds_report.chosen = "unknown"
               /\ harness.odds_report.action = "investigation_needed"

\* the harness went on after an ambiguous verdict, and a direct call raised
C7_Witness ==
    \/ /\ harness.pc = "prepared"
       /\ harness.odds_report.chosen = "unknown"
       /\ Len(harness.data.rows) < Len(gate_base.rows)
    \/ /\ gate_call.op = "gate"
       /\ gate_call.raised
       /\ harness.pc = "failed"

(***************************************************************************)
(* C8.  Applying the gate again, with the same configuration, to the data  *)
(* it returned gives that data back unchanged.                             *)
(***************************************************************************)
C8_SecondApplicationNoOp ==
    (gate_call.op = "gate" /\ gate_calls >= 2 /\ ~gate_call.raised) =>
        gate_call.output = gate_call.input

\* the second application ran on data the first application had swapped
C8_Witness ==
    /\ gate_call.op = "gate"
    /\ gate_calls = 2
    /\ ~gate_call.raised
    /\ gate_call.input # gate_base
    /\ gate_call.output = gate_call.input

(***************************************************************************)
(* C9.  For a dataset D healthy as it is and unhealthy swapped, the gate   *)
(* with auto-fix, run on D with its odds columns exchanged, reports        *)
(* swapped / auto_swapped and returns D's odds row for row.                *)
(***************************************************************************)
C9_Premise ==
    /\ gate_call.op = "gate"
    /\ gate_calls = 1
    /\ GateRequired \subseteq gate_call.input.columns
    /\ gate_config.odds_auto_fix
    /\ HealthyTable(ExchangedTable(gate_call.input))
    /\ ~HealthyTable(ExchangedTable(ExchangedTable(gate_call.input)))

C9_AutoFixRestoresOriginal ==
    C9_Premise =>
        LET D == ExchangedTable(gate_call.input) IN
        /\ ~gate_call.raised
        /\ gate_call.report.chosen = "swapped"
        /\ gate_call.report.action = "auto_swapped"
        /\ Len(gate_call.output.rows) = Len(D.rows)
        /\ \A i \in 1 .. Len(D.rows) :
              /\ gate_call.output.rows[i].home_odds_close = D.rows[i].home_odds_close
              /\ gate_call.output.rows[i].away_odds_close = D.rows[i].away_odds_close

\* such a dataset, with odds that differ between the two sides
C9_Witness ==
    /\ C9_Premise
    /\ gate_call.output # gate_call.input

(***************************************************************************)
(* C10.  The gate changes no column other than the two odds columns, adds, *)
(* drops or reorders no row, and leaves the caller's table as it was.      *)
(***************************************************************************)
SameButOdds(r, q) ==
    [r EXCEPT !.home_odds_close = NoVal, !.away_odds_close = NoVal]
        = [q EXCEPT !.home_odds_close = NoVal, !.away_odds_close = NoVal]

C10_GateFrame ==
    gate_call.op = "gate" =>
        /\ gate_call.input_after = gate_call.input
        /\ ~gate_call.raised =>
              /\ gate_call.output.columns = gate_call.input.columns
              /\ Len(gate_call.output.rows) = Len(gate_call.input.rows)
              /\ \A i \in 1 .. Len(gate_call.input.rows) :
                    SameButOdds(gate_call.output.rows[i], gate_call.input.rows[i])

\* a call that returned swapped odds
C10_Witness ==
    /\ GateReturned
    /\ gate_call.report.action = "auto_swapped"
    /\ gate_call.output # gate_call.input

(***************************************************************************)
(* FeatureEngineer (features/engineer.py).  fe_data is self.data after     *)
(* construction: dates parsed, rows sorted ascending by date (NaT last).   *)
(* A mean is held as the pair <<sum, count>>.                              *)
(***************************************************************************)
HistoryWindow == 10

\* an absent (None) mean or expectation
NoMean == <<>>

\* descending sort on date, NaT last, ties in their original order
DescKey(d) == IF d = NaT THEN 0 - 1 ELSE d

RECURSIVE InsertByDateDesc(_, _)
InsertByDateDesc(sorted, r) ==
    IF sorted = <<>> THEN <<r>>
    ELSE IF DescKey(Head(sorted).date) >= DescKey(r.date)
         THEN <<Head(sorted)>> \o InsertByDateDesc(Tail(sorted), r)
         ELSE <<r>> \o sorted

RECURSIVE SortByDateDesc(_)
SortByDateDesc(rows) ==
    IF rows = <<>> THEN <<>>
    ELSE InsertByDateDesc(SortByDateDesc(SubSeq(rows, 1, Len(rows) - 1)), rows[Len(rows)])

\* history.head(n)
HeadN(seq, n) == IF n >= Len(seq) THEN seq ELSE SubSeq(seq, 1, n)

Teams(data) ==
    {data[i].home_team : i \in 1 .. Len(data)} \cup {data[i].away_team : i \in 1 .. Len(data)}

\* _build_team_index: the team's games with its own points, margin and result
TeamRow(r, team) ==
    LET is_home == r.home_team = team
        pf == IF is_home THEN r.home_score ELSE r.away_score
        pa == IF is_home THEN r.away_score ELSE r.home_score
    IN  [match_id |-> r.match_id, date |-> r.date, home_team |-> r.home_team,
         away_team |-> r.away_team, home_score |-> r.home_score,
         away_score |-> r.away_score, is_home |-> is_home, points_for |-> pf,
         points_against |-> pa, margin |-> pf - pa,
         win |-> IF pf - pa > 0 THEN 1 ELSE 0]

TeamGames(data, team) ==
    LET own == SelectSeq(data, LAMBDA r : r.home_team = team \/ r.away_team = team)
    IN  SortByDate([i \in 1 .. Len(own) |-> TeamRow(own[i], team)])

\* _get_team_history: the validated games, most recent first
_get_team_history(data, team, before) ==
    IF team \notin Teams(data) THEN <<>>
    ELSE SortByDateDesc(
            ValidateResult([has_date |-> TRUE, rows |-> TeamGames(data, team)], before).rows)

ColumnSum(rows, col) ==
    SumSeq([i \in 1 .. Len(rows) |->
              IF col = "points_for" THEN rows[i].points_for
              ELSE IF col = "points_against" THEN rows[i].points_against
              ELSE IF col = "margin" THEN rows[i].margin
              ELSE rows[i].win])

\* rolling statistics taken over the whole history whatever the window size
RollingStatsWholeHistory(history, n_games, config) ==
    IF history = <<>>
    THEN [games |-> 0, pf |-> NoMean, pa |-> NoMean, margin |-> NoMean, win_rate |-> NoMean]
    ELSE IF Len(history) < config.min_games_for_rolling
    THEN [games |-> Len(history), pf |-> NoMean, pa |-> NoMean, margin |-> NoMean,
          win_rate |-> NoMean]
    ELSE [games |-> Len(history),
          pf |-> <<ColumnSum(history, "points_for"), Len(history)>>,
          pa |-> <<ColumnSum(history, "points_against"), Len(history)>>,
          margin |-> <<ColumnSum(history, "margin"), Len(history)>>,
          win_rate |-> <<ColumnSum(history, "win"), Len(history)>>]

_compute_rolling_stats(history, n_games, config) ==
    LET recent == HeadN(history, n_games) IN
    IF history = <<>>
    THEN [games |-> 0, pf |-> NoMean, pa |-> NoMean, margin |-> NoMean, win_rate |-> NoMean]
    ELSE IF Len(recent) < config.min_games_for_rolling
    THEN [games |-> Len(recent), pf |-> NoMean, pa |-> NoMean, margin |-> NoMean,
          win_rate |-> NoMean]
    ELSE [games |-> Len(recent),
          pf |-> <<ColumnSum(recent, "points_for"), Len(recent)>>,
          pa |-> <<ColumnSum(recent, "points_against"), Len(recent)>>,
          margin |-> <<ColumnSum(recent, "margin"), Len(recent)>>,
          win_rate |-> <<ColumnSum(recent, "win"), Len(recent)>>]

\* home mean minus away mean, as a fraction; absent unless both are present
MeanDiff(h, a) ==
    IF h = NoMean \/ a = NoMean THEN NoMean
    ELSE <<h[1] * a[2] - a[1] * h[2], h[2] * a[2]>>

\* calc_pythag: the summed points-for and points-against the expectation is
\* computed from (pf^exp / (pf^exp + pa^exp)), or NoMean
calc_pythag(history, config) ==
    IF history = <<>> \/ Len(history) < config.min_games_for_rolling THEN NoMean
    ELSE LET recent == HeadN(history, HistoryWindow)
             pf == ColumnSum(recent, "points_for")
             pa == ColumnSum(recent, "points_against")
         IN  IF pf + pa <= 0 THEN NoMean ELSE <<pf, pa>>

\* the head-to-head rows _compute_h2h reads: validated, most recent first, capped
H2HRows(data, home_team, away_team, before) ==
    LET h2h_df == SelectSeq(data, LAMBDA r :
                      \/ (r.home_team = home_team /\ r.away_team = away_team)
                      \/ (r.home_team = away_team /\ r.away_team = home_team))
        safe == ValidateResult([has_date |-> TRUE, rows |-> h2h_df], before).rows
    IN  HeadN(SortByDateDesc(safe), HistoryWindow)

H2HSource(data, home_team, away_team) ==
    [has_date |-> TRUE,
     rows |-> SelectSeq(data, LAMBDA r :
                      \/ (r.home_team = home_team /\ r.away_team = away_team)
                      \/ (r.home_team = away_team /\ r.away_team = home_team))]

_compute_h2h(data, home_team, away_team, before) ==
    LET recent == H2HRows(data, home_team, away_team, before)
        wins == SumSeq([i \in 1 .. Len(recent) |->
                    IF recent[i].home_team = home_team
                    THEN (IF recent[i].home_score > recent[i].away_score THEN 1 ELSE 0)
                    ELSE (IF recent[i].away_score > recent[i].home_score THEN 1 ELSE 0)])
        total == SumSeq([i \in 1 .. Len(recent) |->
                    IF recent[i].home_team = home_team
                    THEN recent[i].home_score - recent[i].away_score
                    ELSE recent[i].away_score - recent[i].home_score])
    IN  IF recent = <<>>
        THEN [h2h_games |-> 0, h2h_home_win_rate |-> NoMean, h2h_margin |-> NoMean]
        ELSE [h2h_games |-> Len(recent), h2h_home_win_rate |-> <<wins, Len(recent)>>,
              h2h_margin |-> <<total, Len(recent)>>]

\* days_since_last: (date - last_game).days is NaN next to a NaT, and max(0, NaN) is 0
days_since_last(history, date) ==
    IF history = <<>> THEN NoVal
    ELSE IF history[1].date = NaT \/ date = NaT THEN 0
    ELSE IF date - history[1].date > 0 THEN date - history[1].date ELSE 0

compute_features(data, config, match) ==
    LET match_date == ToDatetime(match.date)
        home_history == _get_team_history(data, match.home_team, match_date)
        away_history == _get_team_history(data, match.away_team, match_date)
        windows == config.rolling_windows
        home_rest == days_since_last(home_history, match_date)
        away_rest == days_since_last(away_history, match_date)
        home_pythag == calc_pythag(home_history, config)
        away_pythag == calc_pythag(away_history, config)
    IN  [match_id |-> match.match_id,
         asof_ts |-> match_date,
         home |-> [k \in 1 .. Len(windows) |->
                      _compute_rolling_stats(home_history, windows[k], config)],
         away |-> [k \in 1 .. Len(windows) |->
                      _compute_rolling_stats(away_history, windows[k], config)],
         diff |-> [k \in 1 .. Len(windows) |->
                      LET h == _compute_rolling_stats(home_history, windows[k], config)
                          a == _compute_rolling_stats(away_history, windows[k], config)
                      IN  [pf |-> MeanDiff(h.pf, a.pf), pa |-> MeanDiff(h.pa, a.pa),
                           margin |-> MeanDiff(h.margin, a.margin),
                           win_rate |-> MeanDiff(h.win_rate, a.win_rate)]],
         home_pythag |-> home_pythag,
         away_pythag |-> away_pythag,
         pythag_diff |-> home_pythag # NoMean /\ away_pythag # NoMean,
         h2h |-> _compute_h2h(data, match.home_team, match.away_team, match_date),
         home_rest |-> home_rest,
         away_rest |-> away_rest,
         rest_diff |-> IF home_rest # NoVal /\ away_rest # NoVal
                       THEN home_rest - away_rest ELSE NoVal]

\* the historical rows a match's features are computed from
ContributingRows(data, match) ==
    LET match_date == ToDatetime(match.date)
        hh == HeadN(_get_team_history(data, match.home_team, match_date), HistoryWindow)
        ah == HeadN(_get_team_history(data, match.away_team, match_date), HistoryWindow)
        hr == H2HRows(data, match.home_team, match.away_team, match_date)
    IN  {[match_id |-> hh[i].match_id, date |-> hh[i].date] : i \in 1 .. Len(hh)}
        \cup {[match_id |-> ah[i].match_id, date |-> ah[i].date] : i \in 1 .. Len(ah)}
        \cup {[match_id |-> hr[i].match_id, date |-> hr[i].date] : i \in 1 .. Len(hr)}

\* the validator's log after the three validate calls of one compute_features
FeatureLog(log, data, match) ==
    LET match_date == ToDatetime(match.date)
        l1 == ValidateLog(log, "history_home",
                  [has_date |-> TRUE, rows |-> TeamGames(data, match.home_team)], match_date)
        l2 == ValidateLog(l1, "history_away",
                  [has_date |-> TRUE, rows |-> TeamGames(data, match.away_team)], match_date)
    IN  ValidateLog(l2, "h2h", H2HSource(data, match.home_team, match.away_team), match_date)

(***************************************************************************)
(* Inputs of the feature engineer.                                         *)
(***************************************************************************)
FeDates == {NaT, 1, 2}

FeFixtures ==
    {[home_team |-> "A", away_team |-> "B", home_score |-> 2, away_score |-> 0],
     [home_team |-> "B", away_team |-> "A", home_score |-> 0, away_score |-> 1],
     [home_team |-> "B", away_team |-> "A", home_score |-> 2, away_score |-> 0],
     [home_team |-> "A", away_team |-> "C", home_score |-> 1, away_score |-> 1]}

FeRowKinds == [date : FeDates, fixture : FeFixtures]

FeRows(kinds) ==
    [i \in 1 .. Len(kinds) |->
        [match_id |-> i, date |-> kinds[i].date,
         home_team |-> kinds[i].fixture.home_team, away_team |-> kinds[i].fixture.away_team,
         home_score |-> kinds[i].fixture.home_score,
         away_score |-> kinds[i].fixture.away_score]]

IsDateSorted(rows) ==
    \A i \in 1 .. Len(rows) - 1 : DateKey(rows[i].date) <= DateKey(rows[i + 1].date)

FeDatasets ==
    {FeRows(kinds) : kinds \in {k \in SeqsUpTo(FeRowKinds, MaxFeRows) :
                                    k # <<>> /\ IsDateSorted(k)}}

FeConfigs ==
    {[rolling_windows |-> <<1, 2>>, min_games_for_rolling |-> 2],
     [rolling_windows |-> <<1, 2>>, min_games_for_rolling |-> 0]}

InitFE ==
    /\ PitIdle
    /\ fold_call = NoCall
    /\ gate_base = NoCall
    /\ lr_fit = NoCall
    /\ gate_config = NoCall
    /\ gate_df = NoCall
    /\ gate_call = NoCall
    /\ gate_calls = 0
    /\ harness = [pc |-> "new"]
    /\ fe_data \in FeDatasets
    /\ fe_config \in FeConfigs
    /\ fe_call = NoCall
    /\ metric_call = NoCall

\* an engineer whose history loses its oldest row once it has served a call
HistoryConsumed(data, calls) == IF calls > 0 /\ data # <<>> THEN Tail(data) ELSE data

\* self.data and self.team_games as the engineer holds them after `calls` validate
\* calls: they are assigned in __init__ only, and validate hands back a copy
HistoryAfterCalls(data, calls) == data

\* the loop of build_feature_matrix: one compute_features per match, in order, on
\* the one engineer (its validator's log and counter move with every match)
RECURSIVE FeatureRows(_, _, _, _, _)
FeatureRows(data, config, matches, eng, acc) ==
    IF matches = <<>> THEN [rows |-> acc, log |-> eng.log, calls |-> eng.calls]
    ELSE LET match == Head(matches)
             held == HistoryAfterCalls(data, eng.calls)
         IN  FeatureRows(data, config, Tail(matches),
                         [log |-> FeatureLog(eng.log, held, match), calls |-> eng.calls + 3],
                         Append(acc, compute_features(held, config, match)))

\* build_feature_matrix: the feature rows, the validator afterwards, and the
\* report it prints
build_feature_matrix(data, config, matches, log, calls) ==
    LET built == FeatureRows(data, config, matches, [log |-> log, calls |-> calls], <<>>)
    IN  [rows |-> built.rows, log |-> built.log, calls |-> built.calls,
         pit_report |-> ReportOf(built.log, built.calls)]

\* compute_features for one match of the dataset
ComputeFeatures ==
    /\ call_count < 3 * MaxFeCalls
    /\ fe_call.op # "build_feature_matrix"
    /\ \E i \in 1 .. Len(fe_data) :
        LET match == fe_data[i]
            held == HistoryAfterCalls(fe_data, call_count)
        IN
        /\ fe_call' = [op |-> "compute_features", match |-> match,
                       used |-> ContributingRows(held, match),
                       features |-> compute_features(held, fe_config, match)]
        /\ call_count' = call_count + 3
        /\ violations' = FeatureLog(violations, fe_data, match)
        /\ pit_call' = [op |-> "validate",
                        source_df |-> H2HSource(fe_data, match.home_team, match.away_team),
                        asof_ts |-> ToDatetime(match.date),
                        result |-> ValidateResult(
                                      H2HSource(fe_data, match.home_team, match.away_team),
                                      ToDatetime(match.date))]
    /\ UNCHANGED <<pit_report, fold_call, gateVars, harness, fe_data, fe_config, metric_call>>

\* build_feature_matrix over two matches of the dataset, in either order, on an
\* engineer that is new or has computed one match's features before
BuildFeatureMatrix ==
    /\ call_count <= 3
    /\ fe_call.op # "build_feature_matrix"
    /\ \E i \in 1 .. Len(fe_data), j \in 1 .. Len(fe_data) :
        /\ i # j
        /\ LET matches == <<fe_data[i], fe_data[j]>>
               built == build_feature_matrix(fe_data, fe_config, matches,
                                             violations, call_count)
           IN  /\ fe_call' = [op |-> "build_feature_matrix", matches |-> matches,
                              calls_before |-> call_count, rows |-> built.rows]
               /\ violations' = built.log
               /\ call_count' = built.calls
               /\ pit_report' = built.pit_report
               /\ pit_call' = NoCall
    /\ UNCHANGED <<fold_call, gateVars, harness, fe_data, fe_config, metric_call>>

NextFE == ComputeFeatures

\* the datasets feature matrices are built over
MatrixFixtures ==
    {[home_team |-> "A", away_team |-> "B", home_score |-> 2, away_score |-> 0],
     [home_team |-> "A", away_team |-> "C", home_score |-> 1, away_score |-> 1]}

MatrixDatasets ==
    {FeRows(kinds) : kinds \in {k \in SeqsUpTo([date : FeDates, fixture : MatrixFixtures],
                                                MaxMatrixRows) :
                                    Len(k) >= 2 /\ IsDateSorted(k)}}

InitMatrix ==
    /\ PitIdle
    /\ fold_call = NoCall
    /\ gate_base = NoCall
    /\ lr_fit = NoCall
    /\ gate_config = NoCall
    /\ gate_df = NoCall
    /\ gate_call = NoCall
    /\ gate_calls = 0
    /\ harness = [pc |-> "new"]
    /\ fe_data \in MatrixDatasets
    /\ fe_config \in FeConfigs
    /\ fe_call = NoCall
    /\ metric_call = NoCall

NextMatrix == ComputeFeatures \/ BuildFeatureMatrix

SpecMatrix == InitMatrix /\ [][NextMatrix]_vars

SpecFE == InitFE /\ [][NextFE]_vars

(***************************************************************************)
(* C1.  Every historical row that contributes to a match's rolling,        *)
(* Pythagorean, head-to-head or rest-day features is dated strictly before *)
(* the match; the match's own row and rows dated on or after the match's   *)
(* date never contribute.                                                  *)
(***************************************************************************)
C1_OnlyEarlierRowsContribute ==
    fe_call.op = "compute_features" =>
        \A r \in fe_call.used :
            /\ r.match_id # fe_call.match.match_id
            /\ r.date # NaT
            /\ ToDatetime(fe_call.match.date) # NaT
            /\ r.date < ToDatetime(fe_call.match.date)

ProbHalf == 50
ProbOne == 100

RECURSIVE GCD(_, _)
GCD(a, b) == IF b = 0 THEN a ELSE GCD(b, a % b)

Abs(x) == IF x < 0 THEN -x ELSE x

Frac(n, d) ==
    LET g == GCD(Abs(n), Abs(d))
        s == IF d < 0 THEN -1 ELSE 1
    IN  <<(s * n) \div g, (s * d) \div g>>

FracAdd(a, b) == Frac(a[1] * b[2] + b[1] * a[2], a[2] * b[2])
FracSub(a, b) == Frac(a[1] * b[2] - b[1] * a[2], a[2] * b[2])
FracMul(a, b) == Frac(a[1] * b[1], a[2] * b[2])
FracDiv(a, b) == Frac(a[1] * b[2], a[2] * b[1])
FracZero == <<0, 1>>
FracUnit == <<1, 1>>
FracPos(a) == a[1] > 0

RECURSIVE FracSum(_)
FracSum(s) == IF s = <<>> THEN FracZero ELSE FracAdd(Head(s), FracSum(Tail(s)))

FracMean(s) == FracDiv(FracSum(s), <<Len(s), 1>>)

\* float("inf"), an odds value above every finite one
Inf == 1000000

\* 1.0 / odds, the odds in tenths; 1.0 / inf is 0.0
Reciprocal(odds) == IF odds = Inf THEN FracZero ELSE Frac(OddsOne, odds)

\* a total that leaves the away side out
RawTotalHomeOnly(p_home, p_away) == p_home

\* total = p_home + p_away
RawTotal(p_home, p_away) == FracAdd(p_home, p_away)

\* None where a probability would stand
NoProb == <<>>

devig_odds(home_odds, away_odds) ==
    IF home_odds = None \/ away_odds = None THEN <<NoProb, NoProb>>
    ELSE IF home_odds <= OddsOne \/ away_odds <= OddsOne THEN <<NoProb, NoProb>>
    ELSE LET p_home == Reciprocal(home_odds)
             p_away == Reciprocal(away_odds)
             total == RawTotal(p_home, p_away)
         IN  IF ~FracPos(total) THEN <<NoProb, NoProb>>
             ELSE <<FracDiv(p_home, total), FracDiv(p_away, total)>>

Returned(dict) == [raised |-> FALSE, value |-> dict]
Raised(exception) == [raised |-> TRUE, exception |-> exception]
EmptyDict == <<>>

\* df.dropna(subset=cols): a KeyError when a column is missing, else the rows
\* with a value in every one of the columns
DropnaRaises(df, cols) == ~(cols \subseteq df.columns)
Dropna(df, cols) == SelectSeq(df.rows, LAMBDA r : \A c \in cols : r[c] # NoVal)

ProbOf(p) == Frac(p, ProbOne)

\* an error that is not squared
AbsoluteError(p, y) == Frac(Abs(FracSub(p, <<y, 1>>)[1]), FracSub(p, <<y, 1>>)[2])

\* (d[prob_col] - d[outcome_col]) ** 2
SquaredError(p, y) == FracMul(FracSub(p, <<y, 1>>), FracSub(p, <<y, 1>>))

compute_brier(df, prob_col, outcome_col) ==
    IF DropnaRaises(df, {prob_col, outcome_col}) THEN Raised("KeyError")
    ELSE LET d == Dropna(df, {prob_col, outcome_col})
         IN  IF d = <<>> THEN Returned([error |-> "no data"])
             ELSE LET brier == FracMean([i \in 1 .. Len(d) |->
                                   SquaredError(ProbOf(d[i][prob_col]), d[i][outcome_col])])
                      base_rate == FracMean([i \in 1 .. Len(d) |-> <<d[i][outcome_col], 1>>])
                      brier_clim == FracMul(base_rate, FracSub(FracUnit, base_rate))
                  IN  Returned([n |-> Len(d), brier |-> brier,
                                brier_skill |-> IF FracPos(brier_clim)
                                                THEN FracSub(FracUnit, FracDiv(brier, brier_clim))
                                                ELSE FracZero,
                                base_rate |-> base_rate])

\* roc_auc_score: over the pairs of a positive and a negative row, the share
\* ranked the right way, a tie counting one half
roc_auc_score(d, prob_col, outcome_col) ==
    LET pos == SelectSeq(d, LAMBDA r : r[outcome_col] = 1)
        neg == SelectSeq(d, LAMBDA r : r[outcome_col] = 0)
        pairs == (1 .. Len(pos)) \X (1 .. Len(neg))
        above == {ij \in pairs : pos[ij[1]][prob_col] > neg[ij[2]][prob_col]}
        level == {ij \in pairs : pos[ij[1]][prob_col] = neg[ij[2]][prob_col]}
    IN  Frac(2 * Cardinality(above) + Cardinality(level), 2 * Len(pos) * Len(neg))

compute_auc(df, prob_col, outcome_col) ==
    IF DropnaRaises(df, {prob_col, outcome_col}) THEN Raised("KeyError")
    ELSE LET d == Dropna(df, {prob_col, outcome_col})
         IN  IF d = <<>> THEN Returned([error |-> "no data"])
             ELSE IF Cardinality({d[i][outcome_col] : i \in 1 .. Len(d)}) < 2
             THEN Returned([error |-> "single class in outcomes"])
             ELSE Returned([n |-> Len(d), auc |-> roc_auc_score(d, prob_col, outcome_col)])

compute_accuracy(df, prob_col, outcome_col, threshold) ==
    IF DropnaRaises(df, {prob_col, outcome_col}) THEN Raised("KeyError")
    ELSE LET d == Dropna(df, {prob_col, outcome_col})
             pred_class(r) == IF r[prob_col] > threshold THEN 1 ELSE 0
         IN  IF d = <<>> THEN Returned([error |-> "no data"])
             ELSE Returned([n |-> Len(d),
                            accuracy |-> Frac(Len(SelectSeq(d,
                                LAMBDA r : pred_class(r) = r[outcome_col])), Len(d))])

FracLess(a, b) == a[1] * b[2] < b[1] * a[2]

\* calibration_curve(y_true, y_prob, n_bins), strategy "uniform": the bin of a
\* probability is the number of inner edges below it; each bin with a row
\* gives the mean outcome and the mean probability of its rows
InnerEdges(n_bins) == {(k * ProbOne) \div n_bins : k \in 1 .. n_bins - 1}

BinOf(p, n_bins) == Cardinality({e \in InnerEdges(n_bins) : e < p})

calibration_curve(d, prob_col, outcome_col, n_bins) ==
    LET rows(b) == SelectSeq(d, LAMBDA r : BinOf(r[prob_col], n_bins) = b - 1)
        nonzero == SelectSeq([b \in 1 .. n_bins |-> b], LAMBDA b : rows(b) # <<>>)
    IN  [prob_true |-> [k \in 1 .. Len(nonzero) |->
                           FracMean([i \in 1 .. Len(rows(nonzero[k])) |->
                               <<rows(nonzero[k])[i][outcome_col], 1>>])],
         prob_pred |-> [k \in 1 .. Len(nonzero) |->
                           FracMean([i \in 1 .. Len(rows(nonzero[k])) |->
                               ProbOf(rows(nonzero[k])[i][prob_col])])]]

compute_calibration(df, prob_col, outcome_col, n_bins) ==
    IF DropnaRaises(df, {prob_col, outcome_col}) THEN Raised("KeyError")
    ELSE LET d == Dropna(df, {prob_col, outcome_col})
         IN  IF d = <<>> THEN Returned([error |-> "no data"])
             ELSE LET curve == calibration_curve(d, prob_col, outcome_col, n_bins)
                  IN  Returned([predicted |-> curve.prob_pred,
                                actual |-> curve.prob_true,
                                n_bins |-> Len(curve.prob_pred)])

\* the loop of compute_clv: rows whose odds do not de-vig are skipped
RECURSIVE ClvValues(_, _, _, _)
ClvValues(rows, prob_col, home_odds_col, away_odds_col) ==
    IF rows = <<>> THEN <<>>
    ELSE LET row == Head(rows)
             fair_home == devig_odds(row[home_odds_col], row[away_odds_col])[1]
             rest == ClvValues(Tail(rows), prob_col, home_odds_col, away_odds_col)
         IN  IF fair_home = NoProb THEN rest
             ELSE <<FracSub(ProbOf(row[prob_col]), fair_home)>> \o rest

\* median_clv and std_clv summarise the same clv_values and are left out
compute_clv(df, prob_col, home_odds_col, away_odds_col) ==
    IF home_odds_col \notin df.columns \/ away_odds_col \notin df.columns
    THEN Returned([error |-> "odds columns not found"])
    ELSE IF DropnaRaises(df, {prob_col, home_odds_col, away_odds_col})
    THEN Raised("KeyError")
    ELSE LET clv_values == ClvValues(Dropna(df, {prob_col, home_odds_col, away_odds_col}),
                                     prob_col, home_odds_col, away_odds_col)
         IN  IF clv_values = <<>> THEN Returned([error |-> "no valid odds rows"])
             ELSE Returned([n |-> Len(clv_values),
                            mean_clv |-> FracMean(clv_values),
                            positive_rate |-> Frac(Len(SelectSeq(clv_values, FracPos)),
                                                   Len(clv_values))])

\* if len(d) < 20
MinBaselineRows == 20

\* np.clip(p, eps, 1 - eps), eps = 1e-6
_clip_probs(p) ==
    LET eps == <<1, 1000000>>
        top == <<999999, 1000000>>
    IN  IF FracLess(p, eps) THEN eps ELSE IF FracLess(top, p) THEN top ELSE p

\* fit is what LogisticRegression.fit gave for the slope, NoVal when it raised
\* (slope stays None); intercept is None exactly when slope is, correlation is
\* a further summary of the same p_market and y: both are left out
compute_market_baseline(df, home_odds_col, away_odds_col, outcome_col, fit) ==
    IF ~({home_odds_col, away_odds_col, outcome_col} \subseteq df.columns)
    THEN Returned([error |-> "missing columns"])
    ELSE LET d == SelectSeq(df.rows, LAMBDA r :
                      /\ r[home_odds_col] # NoVal /\ r[away_odds_col] # NoVal
                      /\ r[home_odds_col] > OddsOne /\ r[away_odds_col] > OddsOne)
         IN  IF Len(d) < MinBaselineRows THEN Returned([error |-> "too few valid rows"])
             ELSE LET p_market(r) ==
                          _clip_probs(FracDiv(Reciprocal(r[home_odds_col]),
                              FracAdd(Reciprocal(r[home_odds_col]),
                                      Reciprocal(r[away_odds_col]))))
                  IN  Returned([n |-> Len(d),
                                brier |-> FracMean([i \in 1 .. Len(d) |->
                                    SquaredError(p_market(d[i]), d[i][outcome_col])]),
                                slope |-> IF fit = NoVal THEN None ELSE fit,
                                home_win_rate |-> FracMean([i \in 1 .. Len(d) |->
                                    <<d[i][outcome_col], 1>>])])

\* the default arguments of the metric functions
DefaultNBins == 10
HomeOddsCol == "home_odds_close"
AwayOddsCol == "away_odds_close"

\* compute_all_metrics: one call after another, so the first that raises ends it
compute_all_metrics(df, prob_col, outcome_col, fit) ==
    LET with_odds == HomeOddsCol \in df.columns /\ AwayOddsCol \in df.columns
        brier == compute_brier(df, prob_col, outcome_col)
        auc == compute_auc(df, prob_col, outcome_col)
        accuracy == compute_accuracy(df, prob_col, outcome_col, ProbHalf)
        calibration == compute_calibration(df, prob_col, outcome_col, DefaultNBins)
        clv == compute_clv(df, prob_col, HomeOddsCol, AwayOddsCol)
        market_baseline ==
            compute_market_baseline(df, HomeOddsCol, AwayOddsCol, outcome_col, fit)
    IN  IF brier.raised THEN brier
        ELSE IF auc.raised THEN auc
        ELSE IF accuracy.raised THEN accuracy
        ELSE IF calibration.raised THEN calibration
        ELSE IF with_odds /\ clv.raised THEN clv
        ELSE IF with_odds /\ market_baseline.raised THEN market_baseline
        ELSE Returned(
            [model_metrics |-> [brier |-> brier.value, auc |-> auc.value,
                                accuracy |-> accuracy.value,
                                calibration |-> calibration.value],
             market_metrics |-> IF with_odds
                                THEN [clv |-> clv.value,
                                      market_baseline |-> market_baseline.value]
                                ELSE EmptyDict])

(***************************************************************************)
(* Inputs of the metric functions: tables of up to MaxMetricRows rows of   *)
(* predictions (a confident right call, a coin flip either way, a missing  *)
(* prediction, a missing outcome), each kind of row with odds of its own;  *)
(* a table may lack the prediction column, the outcome column or the odds  *)
(* columns.  Two long tables stand on either side of the market baseline's *)
(* minimum of valid rows, and two more are the tables of the tests.        *)
(***************************************************************************)
ProbCol == "pred_home_win_prob"
OutcomeCol == "home_win"

MetricRow(p, y, h, a) ==
    [pred_home_win_prob |-> p, home_win |-> y, home_odds_close |-> h, away_odds_close |-> a]

MetricRowKinds ==
    {MetricRow(ProbOne, 1, 15, 30), MetricRow(0, 0, 30, 14),
     MetricRow(ProbHalf, 1, 20, 20), MetricRow(ProbHalf, 0, OddsOne, 30),
     MetricRow(NoVal, 1, 20, 20), MetricRow(ProbHalf, NoVal, NoVal, 20)}

MetricColumns == {ProbCol, OutcomeCol, HomeOddsCol, AwayOddsCol}

MetricColumnSets ==
    {MetricColumns, MetricColumns \ {ProbCol}, MetricColumns \ {OutcomeCol},
     MetricColumns \ {HomeOddsCol, AwayOddsCol}}

LongMetricTable(n) ==
    [columns |-> MetricColumns,
     rows |-> [i \in 1 .. n |-> IF i % 2 = 1 THEN MetricRow(ProbOne, 1, 15, 30)
                                ELSE MetricRow(ProbHalf, 0, 30, 14)]]

\* the tables of the tests: predictions equal to the outcomes [1, 0, 1, 0], and
\* predictions of 0.5 throughout on the same outcomes
PerfectTable ==
    [columns |-> {ProbCol, OutcomeCol},
     rows |-> [i \in 1 .. 4 |-> IF i % 2 = 1 THEN MetricRow(ProbOne, 1, 15, 30)
                                ELSE MetricRow(0, 0, 30, 14)]]

CoinFlipTable ==
    [columns |-> {ProbCol, OutcomeCol},
     rows |-> [i \in 1 .. 4 |-> IF i % 2 = 1 THEN MetricRow(ProbHalf, 1, 20, 20)
                                ELSE MetricRow(ProbHalf, 0, OddsOne, 30)]]

MetricTables ==
    [columns : MetricColumnSets, rows : SeqsUpTo(MetricRowKinds, MaxMetricRows)]
    \cup {LongMetricTable(MinBaselineRows - 1), LongMetricTable(MinBaselineRows),
          PerfectTable, CoinFlipTable}

OddsInputs == {None, 5, OddsOne, 15, 20, 30, Inf}

MetricsIdle ==
    /\ PitIdle
    /\ fold_call = NoCall
    /\ gate_base = NoCall
    /\ lr_fit = NoCall
    /\ gate_config = NoCall
    /\ gate_df = NoCall
    /\ gate_call = NoCall
    /\ gate_calls = 0
    /\ harness = [pc |-> "new"]
    /\ fe_data = NoCall
    /\ fe_config = NoCall
    /\ fe_call = NoCall

InitMetrics ==
    /\ MetricsIdle
    /\ metric_call = NoCall

MetricsUnchanged ==
    UNCHANGED <<pitVars, fold_call, gateVars, harness, feVars>>

DevigOdds ==
    /\ metric_call = NoCall
    /\ \E home_odds \in OddsInputs, away_odds \in OddsInputs :
          metric_call' = [op |-> "devig_odds", home_odds |-> home_odds,
                          away_odds |-> away_odds,
                          result |-> devig_odds(home_odds, away_odds)]
    /\ MetricsUnchanged

ComputeBrier ==
    /\ metric_call = NoCall
    /\ \E df \in MetricTables :
          metric_call' = [op |-> "compute_brier", df |-> df,
                          result |-> compute_brier(df, ProbCol, OutcomeCol)]
    /\ MetricsUnchanged

ComputeAuc ==
    /\ metric_call = NoCall
    /\ \E df \in MetricTables :
          metric_call' = [op |-> "compute_auc", df |-> df,
                          result |-> compute_auc(df, ProbCol, OutcomeCol)]
    /\ MetricsUnchanged

ComputeAccuracy ==
    /\ metric_call = NoCall
    /\ \E df \in MetricTables :
          metric_call' = [op |-> "compute_accuracy", df |-> df,
                          result |-> compute_accuracy(df, ProbCol, OutcomeCol, ProbHalf)]
    /\ MetricsUnchanged

ComputeCalibration ==
    /\ metric_call = NoCall
    /\ \E df \in MetricTables :
          metric_call' = [op |-> "compute_calibration", df |-> df,
                          result |-> compute_calibration(df, ProbCol, OutcomeCol,
                                                         DefaultNBins)]
    /\ MetricsUnchanged

ComputeClv ==
    /\ metric_call = NoCall
    /\ \E df \in MetricTables :
          metric_call' = [op |-> "compute_clv", df |-> df,
                          result |-> compute_clv(df, ProbCol, HomeOddsCol, AwayOddsCol)]
    /\ MetricsUnchanged

ComputeMarketBaseline ==
    /\ metric_call = NoCall
    /\ \E df \in MetricTables, fit \in FitOutcomes :
          metric_call' = [op |-> "compute_market_baseline", df |-> df, fit |-> fit,
                          result |-> compute_market_baseline(df, HomeOddsCol, AwayOddsCol,
                                                             OutcomeCol, fit)]
    /\ MetricsUnchanged

ComputeAllMetrics ==
    /\ metric_call = NoCall
    /\ \E df \in MetricTables, fit \in FitOutcomes :
          metric_call' = [op |-> "compute_all_metrics", df |-> df, fit |-> fit,
                          result |-> compute_all_metrics(df, ProbCol, OutcomeCol, fit)]
    /\ MetricsUnchanged

NextMetrics ==
    \/ DevigOdds
    \/ ComputeBrier
    \/ ComputeAuc
    \/ ComputeAccuracy
    \/ ComputeCalibration
    \/ ComputeClv
    \/ ComputeMarketBaseline
    \/ ComputeAllMetrics

SpecMetrics == InitMetrics /\ [][NextMetrics]_vars

(***************************************************************************)
(* EvaluationHarness.run_evaluation (evaluation/harness.py), step by step: *)
(* _prepare_data, _build_features, the fold generator, the training loop.  *)
(* The harness record carries pc (where the run stands), steps (the        *)
(* processing steps performed so far) and what each step produced.  The    *)
(* feature values themselves are FeatureEngineer's (modelled above); here  *)
(* a feature row is its key columns, since the values only feed the        *)
(* classifier, a library call whose probabilities are drawn.               *)
(***************************************************************************)
FeatureRequired == {"home_team", "away_team", "home_score", "away_score"}

FeatureKeys(data) ==
    [i \in 1 .. Len(data.rows) |->
        [match_id |-> data.rows[i].match_id, asof_ts |-> data.rows[i].date]]

WithAsof(r, asof) ==
    [match_id |-> r.match_id, date |-> r.date, home_team |-> r.home_team,
     away_team |-> r.away_team, home_score |-> r.home_score, away_score |-> r.away_score,
     home_win |-> r.home_win, season |-> r.season, home_odds_close |-> r.home_odds_close,
     away_odds_close |-> r.away_odds_close, asof_ts |-> asof]

\* self.data.merge(features, on="match_id", how="left")
RECURSIVE MergeLeft(_, _)
MergeLeft(rows, features) ==
    IF rows = <<>> THEN <<>>
    ELSE LET r == Head(rows)
             hits == SelectSeq(features, LAMBDA f : f.match_id = r.match_id)
             joined == IF hits = <<>> THEN <<WithAsof(r, NoVal)>>
                       ELSE [k \in 1 .. Len(hits) |-> WithAsof(r, hits[k].asof_ts)]
         IN  joined \o MergeLeft(Tail(rows), features)

\* Config(): rolling_windows and min_games_for_rolling as the harness's engineer
\* reads them
DefaultFeatureConfig == [rolling_windows |-> <<3, 5, 10>>, min_games_for_rolling |-> 3]

\* Config.feature_exclude; a column name is the tuple of its parts, so that
\* f"home_{window}_pf" is <<"home", window, "pf">>
FeatureExclude ==
    {<<"match_id">>, <<"date">>, <<"season">>, <<"home_team">>, <<"away_team">>,
     <<"home_score">>, <<"away_score">>, <<"home_win">>, <<"home_odds_close">>,
     <<"away_odds_close">>, <<"home_odds_open">>, <<"away_odds_open">>, <<"asof_ts">>,
     <<"feature_version">>, <<"venue">>, <<"referee">>}

MeanStats == <<"pf", "pa", "margin", "win_rate">>

\* one key of the dict compute_features returns, and whether its value is a number
FeatureCell(col, number) == [col |-> col, number |-> number]

SideCells(side, window, stats) ==
    <<FeatureCell(<<side, window, "games">>, TRUE)>>
    \o [s \in 1 .. Len(MeanStats) |->
           FeatureCell(<<side, window, MeanStats[s]>>, stats[MeanStats[s]] # NoMean)]

\* a differential is a key of the dict only when both sides have the statistic
DiffCells(window, diff) ==
    SelectSeq([s \in 1 .. Len(MeanStats) |->
                  FeatureCell(<<"diff", window, MeanStats[s]>>, diff[MeanStats[s]] # NoMean)],
              LAMBDA c : c.number)

RECURSIVE WindowCells(_, _, _)
WindowCells(f, windows, k) ==
    IF k > Len(windows) THEN <<>>
    ELSE SideCells("home", windows[k], f.home[k]) \o SideCells("away", windows[k], f.away[k])
         \o DiffCells(windows[k], f.diff[k]) \o WindowCells(f, windows, k + 1)

\* the dict of compute_features, key by key in insertion order
FeatureCells(f, windows) ==
    <<FeatureCell(<<"match_id">>, TRUE), FeatureCell(<<"asof_ts">>, FALSE),
      FeatureCell(<<"feature_version">>, FALSE)>>
    \o WindowCells(f, windows, 1)
    \o <<FeatureCell(<<"home_pythag">>, f.home_pythag # NoMean),
          FeatureCell(<<"away_pythag">>, f.away_pythag # NoMean),
          FeatureCell(<<"pythag_diff">>, f.pythag_diff),
          FeatureCell(<<"h2h_games">>, TRUE),
          FeatureCell(<<"h2h_home_win_rate">>, f.h2h.h2h_home_win_rate # NoMean),
          FeatureCell(<<"h2h_margin">>, f.h2h.h2h_margin # NoMean),
          FeatureCell(<<"home_rest">>, f.home_rest # NoVal),
          FeatureCell(<<"away_rest">>, f.away_rest # NoVal),
          FeatureCell(<<"rest_diff">>, f.rest_diff # NoVal)>>

\* pd.DataFrame(rows): the columns are the keys in order of first appearance,
\* row after row
RECURSIVE FrameColumns(_, _)
FrameColumns(rows, seen) ==
    IF rows = <<>> THEN seen
    ELSE LET keys == [k \in 1 .. Len(Head(rows)) |-> Head(rows)[k].col]
             fresh == SelectSeq(keys, LAMBDA col : \A k \in 1 .. Len(seen) : seen[k] # col)
         IN  FrameColumns(Tail(rows), seen \o fresh)

\* the columns of the feature frame whose dtype is numeric: a column of None
\* throughout has dtype object, one with a number in some row is float64 or int64
NumericColumns(rows) ==
    SelectSeq(FrameColumns(rows, <<>>),
              LAMBDA col : \E i \in 1 .. Len(rows) : \E k \in 1 .. Len(rows[i]) :
                              rows[i][k].col = col /\ rows[i][k].number)

\* the feature frame build_feature_matrix returns, as its numeric columns
FeatureFrame(data, config) ==
    NumericColumns([i \in 1 .. Len(data.rows) |->
                       FeatureCells(compute_features(data.rows, config, data.rows[i]),
                                    config.rolling_windows)])

\* get_feature_columns: the numeric columns outside feature_exclude.  Every
\* column of the input tables drawn is in feature_exclude, so the features all
\* come from the feature frame.
get_feature_columns(df, exclude) ==
    SelectSeq(df.numeric_columns, LAMBDA col : col \notin exclude)

_get_feature_columns(h) == get_feature_columns(h.dataset, FeatureExclude)

\* _build_features: FeatureEngineer(self.data), build_feature_matrix on the seven
\* required columns, merge.  An empty table gives a feature frame without columns,
\* and the merge on match_id fails.
_build_features(h) ==
    IF ~(FeatureRequired \subseteq h.data.columns)
    THEN [pc |-> "failed", error |-> "KeyError", steps |-> h.steps]
    ELSE IF h.data.rows = <<>>
    THEN [pc |-> "failed", error |-> "KeyError", steps |-> h.steps]
    ELSE [pc |-> "featured", data |-> h.data, odds_report |-> h.odds_report,
          dataset |-> [columns |-> h.data.columns \cup {"asof_ts"},
                       rows |-> MergeLeft(h.data.rows, FeatureKeys(h.data)),
                       numeric_columns |-> FeatureFrame(h.data, DefaultFeatureConfig)],
          steps |-> Append(h.steps, "feature_building")]

\* a harness that goes on to the training loop with no folds
NoFoldsIgnored(folds) == FALSE

\* if not folds: raise ValueError("No valid folds created!")
NoFoldsFatal(folds) == folds = <<>>

\* the fold step of run_evaluation
_create_folds(h, test_seasons, fold_type, train_window, config) ==
    LET df == [has_season |-> "season" \in h.dataset.columns, rows |-> h.dataset.rows]
        made == IF fold_type = "rolling"
                THEN create_rolling_folds(df, test_seasons, train_window, None, config)
                ELSE create_anchored_folds(df, test_seasons, None, None, config)
    IN  IF made.raised
        THEN [pc |-> "failed", error |-> "ValueError", steps |-> h.steps, fits |-> 0]
        ELSE IF NoFoldsFatal(made.folds)
        THEN [pc |-> "failed", error |-> "No valid folds created!",
              steps |-> Append(h.steps, "fold_generation"), fits |-> 0, folds |-> made.folds]
        ELSE [pc |-> "folded", data |-> h.data, odds_report |-> h.odds_report,
              dataset |-> h.dataset, folds |-> made.folds,
              test_seasons |-> test_seasons, fold_type |-> fold_type,
              steps |-> Append(h.steps, "fold_generation"), fits |-> 0]

\* probabilities are held in hundredths

Labels(rows) == {rows[i].home_win : i \in 1 .. Len(rows)}

\* out_cols: the odds columns are added when home_odds_close is a column
OutColsMissing(columns) ==
    "home_odds_close" \in columns /\ "away_odds_close" \notin columns

\* predict_proba(X_test)[:, idx]: idx is the place of class 1 among the classes
\* seen in training; with home wins only, that is the one column, all ones
FoldProb(train_df, p) == IF 0 \notin Labels(train_df) THEN ProbOne ELSE p

PredictionRows(f, columns, prob) ==
    [i \in 1 .. Len(f.test_df) |->
        [match_id |-> f.test_df[i].match_id, date |-> f.test_df[i].date,
         home_team |-> f.test_df[i].home_team, away_team |-> f.test_df[i].away_team,
         home_win |-> f.test_df[i].home_win,
         home_odds_close |-> f.test_df[i].home_odds_close,
         away_odds_close |-> f.test_df[i].away_odds_close,
         pred_home_win_prob |-> prob, fold_id |-> f.fold_id,
         test_season |-> f.test_season]]

\* accuracy as <<correct, n_test>>
FoldResult(f, prob) ==
    [fold_id |-> f.fold_id, test_season |-> f.test_season,
     n_train |-> Len(f.train_df), n_test |-> Len(f.test_df),
     accuracy |-> <<Len(SelectSeq(f.test_df,
                        LAMBDA r : (IF prob > ProbHalf THEN 1 ELSE 0) = r.home_win)),
                    Len(f.test_df)>>]

\* the training loop: fit, find class 1, predict, build the fold's output
RECURSIVE TrainLoop(_, _, _, _)
TrainLoop(folds, columns, probs, acc) ==
    IF folds = <<>> THEN acc
    ELSE LET f == Head(folds)
             prob == FoldProb(f.train_df, probs[f.fold_id])
         IN  IF 1 \notin Labels(f.train_df)
             THEN [acc EXCEPT !.failed = TRUE, !.error = "ValueError", !.fits = @ + 1]
             ELSE IF OutColsMissing(columns)
             THEN [acc EXCEPT !.failed = TRUE, !.error = "KeyError", !.fits = @ + 1]
             ELSE TrainLoop(Tail(folds), columns, probs,
                     [acc EXCEPT !.fits = @ + 1,
                                 !.predictions = @ \o PredictionRows(f, columns, prob),
                                 !.fold_results = Append(@, FoldResult(f, prob))])

\* predictions[out_cols + the three columns the loop adds] as compute_all_metrics
\* reads it
PredictionTable(columns, predictions) ==
    [columns |-> {ProbCol, OutcomeCol}
                 \cup (IF "home_odds_close" \in columns
                       THEN {HomeOddsCol, AwayOddsCol} ELSE {}),
     rows |-> predictions]

\* the rest of run_evaluation after the folds: the loop, pd.concat, the bundle
_train_and_predict(h, probs, fit) ==
    LET out == TrainLoop(h.folds, h.dataset.columns, probs,
                         [failed |-> FALSE, error |-> "", fits |-> 0,
                          predictions |-> <<>>, fold_results |-> <<>>])
        metrics == compute_all_metrics(PredictionTable(h.dataset.columns, out.predictions),
                                       ProbCol, OutcomeCol, fit)
    IN  IF out.failed
        THEN [pc |-> "failed", error |-> out.error,
              steps |-> Append(h.steps, "model_training"), fits |-> out.fits]
        ELSE IF h.folds = <<>>
        THEN [pc |-> "failed", error |-> "ValueError",
              steps |-> Append(h.steps, "model_training"), fits |-> 0]
        ELSE IF metrics.raised
        THEN [pc |-> "failed", error |-> metrics.exception,
              steps |-> Append(h.steps, "model_training"), fits |-> out.fits]
        ELSE [pc |-> "done", dataset |-> h.dataset, folds |-> h.folds,
              test_seasons |-> h.test_seasons, fold_type |-> h.fold_type,
              steps |-> Append(h.steps, "model_training"), fits |-> out.fits,
              result |-> [predictions |-> out.predictions,
                          fold_results |-> out.fold_results,
                          metrics |-> metrics.value,
                          odds_report |-> h.odds_report,
                          feature_columns |-> _get_feature_columns(h)]]

\* "feature_columns": results["feature_columns"][:20]
SummaryColumns == 20

\* save_artifacts: the summary record it dumps (the predictions file and the
\* calibration plot are written beside it)
save_artifacts(h, results) ==
    [h EXCEPT !.pc = "saved",
              !.steps = Append(@, "save_artifacts")] @@
    [summary |-> [odds_report |-> results.odds_report,
                  fold_results |-> results.fold_results,
                  metrics |-> results.metrics,
                  n_features |-> Len(results.feature_columns),
                  feature_columns |-> HeadN(results.feature_columns, SummaryColumns)]]

(***************************************************************************)
(* Inputs of a run: tables of MaxRunRows - 1 .. MaxRunRows matches, two a  *)
(* season, home wins on odd rows.  A table may lack one required column,   *)
(* carry one or both odds columns, bring its own season column (agreeing   *)
(* with the dates, or running against them) and its own home_win column    *)
(* (agreeing with the scores, or contradicting them); its first row may    *)
(* carry a date that does not parse, and its rows may come latest first.   *)
(***************************************************************************)
RunDate(i) == ((i - 1) \div 2) * DaysPerYear + ((i - 1) % 2) + 1

LastSeason == Year(RunDate(MaxRunRows))

RunRow(i, columns, bad, season_kind, label_kind) ==
    [match_id |-> IF "match_id" \in columns THEN i ELSE NoVal,
     date |-> IF "date" \notin columns THEN NoVal
              ELSE IF i = 1 /\ bad THEN BadDate ELSE RunDate(i),
     home_team |-> IF "home_team" \notin columns THEN "" ELSE IF i % 2 = 1 THEN "A" ELSE "B",
     away_team |-> IF "away_team" \notin columns THEN "" ELSE IF i % 2 = 1 THEN "B" ELSE "A",
     home_score |-> IF "home_score" \notin columns THEN NoVal ELSE IF i % 2 = 1 THEN 2 ELSE 0,
     away_score |-> IF "away_score" \notin columns THEN NoVal ELSE IF i % 2 = 1 THEN 0 ELSE 2,
     home_win |-> IF "home_win" \notin columns THEN NoVal
                  ELSE IF label_kind = "against_scores" THEN 1 - (i % 2) ELSE i % 2,
     season |-> IF "season" \notin columns THEN NoVal
                ELSE IF season_kind = "against_dates"
                     THEN LastSeason + 1 - Year(RunDate(i))
                     ELSE Year(RunDate(i)),
     home_odds_close |-> IF "home_odds_close" \in columns
                         THEN HomeOdds(i, "favourite") ELSE NoVal,
     away_odds_close |-> IF "away_odds_close" \in columns
                         THEN AwayOdds(i, "favourite") ELSE NoVal]

RunTable(n, columns, bad, latest_first, season_kind, label_kind) ==
    [columns |-> columns,
     rows |-> [i \in 1 .. n |->
                 RunRow(IF latest_first THEN n + 1 - i ELSE i,
                        columns, bad, season_kind, label_kind)]]

OddsColumnChoices == {{}, {"home_odds_close"}, {"home_odds_close", "away_odds_close"}}

\* tables with every required column
CompleteRunTables ==
    {RunTable(n, BaseColumns \cup odds \cup own, bad, latest_first, season_kind, label_kind) :
        n \in (MaxRunRows - 1) .. MaxRunRows, odds \in OddsColumnChoices,
        own \in SUBSET {"season", "home_win"}, bad \in BOOLEAN, latest_first \in BOOLEAN,
        season_kind \in {"with_dates", "against_dates"},
        label_kind \in {"with_scores", "against_scores"}}

\* tables that lack one required column
LackingRunTables ==
    {RunTable(MaxRunRows, ((BaseColumns \ {c}) \cup odds) \cup own, FALSE, FALSE,
              "with_dates", "with_scores") :
        c \in BaseColumns, odds \in {{}, {"home_odds_close", "away_odds_close"}},
        own \in {{}, {"home_win"}}}

RunTables == CompleteRunTables \cup LackingRunTables

RunConfigs ==
    [odds_min_healthy_slope : {30}, odds_min_rows : {20}, odds_auto_fix : {TRUE},
     odds_fail_on_ambiguous : BOOLEAN, min_train_seasons : {1, 2},
     min_test_matches : {1, 2}]

RunTestSeasons == {NoneList, <<2>>, <<3>>, <<2, 3>>, <<3, 2>>, <<2, 2>>}

RunFoldTypes == {"anchored", "rolling"}

RunTrainWindows == {1, 2}

ProbOutcomes == {30, 70}

\* DataLoader._validate_and_prepare (data/loader.py): the schema check comes
\* first; then dates are parsed, undated rows dropped, the table sorted, and
\* home_win and season are derived whether or not the file had such columns
_validate_and_prepare(df) ==
    IF ~(BaseColumns \subseteq df.columns)
    THEN [raised |-> TRUE, df |-> df]
    ELSE LET parsed == [i \in 1 .. Len(df.rows) |->
                           [df.rows[i] EXCEPT !.date = ToDatetime(df.rows[i].date)]]
             kept == SelectSeq(parsed, LAMBDA r : r.match_id # NoVal /\ r.date # NaT)
             sorted == SortByDate(kept)
             derived == [i \in 1 .. Len(sorted) |->
                           [sorted[i] EXCEPT
                              !.home_win = IF sorted[i].home_score > sorted[i].away_score
                                           THEN 1 ELSE 0,
                              !.season = Year(sorted[i].date)]]
         IN  [raised |-> FALSE,
              df |-> [columns |-> df.columns \cup {"home_win", "season"}, rows |-> derived]]

InitRun ==
    /\ PitIdle
    /\ fold_call = NoCall
    /\ gate_base \in RunTables
    /\ lr_fit = [as_is |-> NoVal, swapped |-> NoVal]
    /\ gate_config \in RunConfigs
    /\ gate_df = gate_base
    /\ gate_call = NoCall
    /\ gate_calls = 0
    /\ harness = [pc |-> "new"]
    /\ fe_data = NoCall
    /\ fe_config = NoCall
    /\ fe_call = NoCall
    /\ metric_call = NoCall

\* run_eval.main loads the table through the DataLoader before it constructs the
\* harness; a table handed to EvaluationHarness directly skips this step
DataLoaderLoad ==
    /\ harness.pc = "new"
    /\ LET v == _validate_and_prepare(gate_base) IN
       IF v.raised
       THEN /\ harness' = [pc |-> "failed", error |-> "Data missing required columns",
                           steps |-> <<>>]
            /\ UNCHANGED <<gate_base, gate_df>>
       ELSE /\ v.df # gate_base
            /\ gate_base' = v.df
            /\ gate_df' = v.df
            /\ UNCHANGED harness
    /\ UNCHANGED <<pitVars, fold_call, lr_fit, gate_config, gate_call, gate_calls, feVars, metric_call>>

HarnessBuildFeatures ==
    /\ harness.pc = "prepared"
    /\ harness' = _build_features(harness)
    /\ UNCHANGED <<pitVars, fold_call, gateVars, feVars, metric_call>>

HarnessCreateFolds ==
    /\ harness.pc = "featured"
    /\ \E test_seasons \in RunTestSeasons, fold_type \in RunFoldTypes,
          train_window \in RunTrainWindows :
        harness' = _create_folds(harness, test_seasons, fold_type, train_window, gate_config)
    /\ UNCHANGED <<pitVars, fold_call, gateVars, feVars, metric_call>>

HarnessTrainAndPredict ==
    /\ harness.pc = "folded"
    /\ \E probs \in [1 .. Len(harness.folds) -> ProbOutcomes] :
        harness' = _train_and_predict(harness, probs, lr_fit.as_is)
    /\ UNCHANGED <<pitVars, fold_call, gateVars, feVars, metric_call>>

HarnessSaveArtifacts ==
    /\ harness.pc = "done"
    /\ harness' = save_artifacts(harness, harness.result)
    /\ UNCHANGED <<pitVars, fold_call, gateVars, feVars, metric_call>>

NextRun ==
    \/ DataLoaderLoad
    \/ HarnessPrepareData
    \/ HarnessBuildFeatures
    \/ HarnessCreateFolds
    \/ HarnessTrainAndPredict
    \/ HarnessSaveArtifacts

SpecRun == InitRun /\ [][NextRun]_vars

(***************************************************************************)
(* Vocabulary of the run's claims.                                         *)
(***************************************************************************)
RunCompleteInput == BaseColumns \subseteq gate_base.columns

ScoreLabel(r) == IF r.home_score > r.away_score THEN 1 ELSE 0

\* the season of an input row: the table's own season column, else the year of
\* its date; a row whose date does not parse has none
InputSeason(r) ==
    IF "season" \in gate_base.columns THEN r.season
    ELSE IF ToDatetime(r.date) = NaT THEN NoVal
    ELSE Year(ToDatetime(r.date))

HeldOutSeasons == {harness.folds[k].test_season : k \in 1 .. Len(harness.folds)}

ReportWellFormed(r) ==
    /\ r.chosen \in {"as_is", "swapped", "unknown"}
    /\ r.action \in {"none", "auto_swapped", "manual_fix_needed", "investigation_needed"}
    /\ {"as_is", "swapped"} \subseteq DOMAIN r

(***************************************************************************)
(* C11.  Every orientation report the gate returns, and every one stored   *)
(* in the result bundle of a run, has chosen in {as_is, swapped, unknown}  *)
(* and action in {none, auto_swapped, manual_fix_needed,                   *)
(* investigation_needed}, and carries the evidence for both orientations.  *)
(***************************************************************************)
C11_ReportVocabulary ==
    /\ (gate_call.op = "gate" /\ ~gate_call.raised) => ReportWellFormed(gate_call.report)
    /\ harness.pc = "done" => ReportWellFormed(harness.result.odds_report)

(***************************************************************************)
(* C16.  A run whose fold generator returns no folds ends with the fatal   *)
(* error at the fold step, before any classifier is fit: the training loop *)
(* is only ever entered with at least one fold, and a result bundle has at *)
(* least one fold result (one per fold).                                   *)
(***************************************************************************)
C16_ZeroFoldsFatal ==
    /\ harness.pc = "folded" => harness.folds # <<>>
    /\ (harness.pc # "new" /\ "model_training" \in SeqToSet(harness.steps)) =>
          harness.fits >= 1
    /\ (harness.pc = "failed" /\ harness.error = "No valid folds created!") =>
          /\ harness.fits = 0
          /\ harness.folds = <<>>
          /\ "model_training" \notin SeqToSet(harness.steps)
    /\ harness.pc = "done" =>
          /\ Len(harness.result.fold_results) >= 1
          /\ Len(harness.result.fold_results) = Len(harness.folds)
          /\ harness.fits = Len(harness.folds)

\* a run on a complete table that ended at the fold step with no folds
C16_Witness ==
      ( /\ harness.pc = "failed"
        /\ harness.error = "No valid folds created!"
        /\ RunCompleteInput
        /\ "feature_building" \in SeqToSet(harness.steps)
        /\ harness.fits = 0 )

(***************************************************************************)
(* C17.  When the input table lacks a required column (match_id, date,     *)
(* home_team, away_team, home_score, away_score) the run fails before any  *)
(* processing step (date normalization, label derivation, odds gate,       *)
(* feature building, fold generation) has been performed.                  *)
(***************************************************************************)
C17_SchemaErrorBeforeProcessing ==
    (~RunCompleteInput /\ harness.pc # "new") =>
        /\ harness.pc = "failed"
        /\ harness.steps = <<>>

(***************************************************************************)
(* C18.  The harness runs the odds gate exactly when both odds columns are *)
(* present in the input; when one or both are absent the gate is recorded  *)
(* as skipped and the run goes on through feature building, fold           *)
(* generation and prediction: it never fails over the odds columns, and a  *)
(* run that reaches the training loop with trainable folds returns a       *)
(* result bundle.                                                          *)
(***************************************************************************)
C18_GateIffBothOddsColumns ==
    (RunCompleteInput /\ harness.pc # "new") =>
        /\ ("odds_gate" \in SeqToSet(harness.steps)) <=> has_odds(gate_base)
        /\ ~has_odds(gate_base) =>
              /\ harness.pc \in {"prepared", "featured", "folded"} =>
                    harness.odds_report.action = "skipped"
              /\ harness.pc = "done" => harness.result.odds_report.action = "skipped"
              /\ harness.pc = "failed" => harness.error # "KeyError"

(***************************************************************************)
(* C19.  The predictions table is the concatenation, in fold-id order, of  *)
(* each fold's test matches in date-sorted order, with one prediction row  *)
(* per input match of the held-out seasons: its row count equals the       *)
(* number of input matches in the held-out seasons and the sum of the      *)
(* per-fold n_test values.                                                 *)
(***************************************************************************)
C19_PredictionsOnePerHeldOutMatch ==
    harness.pc = "done" =>
        LET preds == harness.result.predictions
            results == harness.result.fold_results
            held == SelectSeq(gate_base.rows, LAMBDA r : InputSeason(r) \in HeldOutSeasons)
        IN  /\ Len(preds) = SumSeq([k \in 1 .. Len(results) |-> results[k].n_test])
            /\ \A i \in 1 .. Len(preds) - 1 :
                  \/ preds[i].fold_id < preds[i + 1].fold_id
                  \/ /\ preds[i].fold_id = preds[i + 1].fold_id
                     /\ preds[i].date <= preds[i + 1].date
            /\ Len(preds) = Len(held)
            /\ \A j \in 1 .. Len(held) :
                  Len(SelectSeq(preds, LAMBDA q : q.match_id = held[j].match_id)) = 1

(***************************************************************************)
(* C20.  In the dataset the harness trains and scores on, and in every     *)
(* prediction record, home_win equals (home_score > away_score) for that   *)
(* match.                                                                  *)
(***************************************************************************)
C20_LabelDerivedFromScores ==
    /\ harness.pc \in {"featured", "folded", "done"} =>
          \A i \in 1 .. Len(harness.dataset.rows) :
              harness.dataset.rows[i].home_win = ScoreLabel(harness.dataset.rows[i])
    /\ harness.pc = "done" =>
          \A i \in 1 .. Len(harness.result.predictions) :
              \A j \in 1 .. Len(gate_base.rows) :
                  gate_base.rows[j].match_id = harness.result.predictions[i].match_id =>
                      harness.result.predictions[i].home_win = ScoreLabel(gate_base.rows[j])

\* the rows of a table whose date cell does not parse
Unparsable(rows) == SelectSeq(rows, LAMBDA r : ToDatetime(r.date) = NaT)

(***************************************************************************)
(* C25.  Rows whose date value cannot be parsed are kept in validate's     *)
(* output, in their order, whatever the cutoff, and are not counted in the *)
(* blocked count of the call: the count the call adds to the log is the    *)
(* number of rows with a parsed date on or after the cutoff.               *)
(***************************************************************************)
C25_UnparsableKeptNotCounted ==
    [][ (pit_call'.op = "validate") =>
          /\ Unparsable(pit_call'.result.rows) = Unparsable(pit_call'.source_df.rows)
          /\ LogTotal(violations') - LogTotal(violations) =
                Len(SelectSeq(pit_call'.source_df.rows,
                              LAMBDA r : /\ ToDatetime(r.date) # NaT
                                         /\ pit_call'.asof_ts # NaT
                                         /\ ToDatetime(r.date) >= pit_call'.asof_ts)) ]_vars

\* a call on a table with the date column that excluded a dated row and kept an
\* unparsable one
C25_Witness ==
      ( /\ pit_call.op = "validate"
        /\ pit_call.source_df.has_date
        /\ Excluded(pit_call) >= 1
        /\ Len(Unparsable(pit_call.result.rows)) >= 1
        /\ violations # <<>>
        /\ violations[Len(violations)].future_rows_blocked
             = Len(pit_call.source_df.rows) - Len(pit_call.result.rows) )

(***************************************************************************)
(* C30.  Over any sequence of validate, report and reset calls: the        *)
(* violation log never has more entries than the call counter counts; a    *)
(* validate or report call only ever extends the log; report() changes     *)
(* neither the log nor the counter, reports the counter, and reports CLEAN *)
(* exactly when is_clean holds; reset() leaves zero calls and an empty     *)
(* log, the state after construction.                                      *)
(***************************************************************************)
C30_PitStateSequences ==
    /\ [](Len(violations) <= call_count)
    /\ [][ /\ (pit_call'.op = "validate" \/ pit_report' # NoCall) =>
                /\ Len(violations') >= Len(violations)
                /\ SubSeq(violations', 1, Len(violations)) = violations
           /\ pit_report' # NoCall =>
                /\ violations' = violations
                /\ call_count' = call_count
                /\ pit_report'.total_calls = call_count
                /\ (pit_report'.status = "CLEAN") <=> is_clean
                /\ pit_report'.status \in {"CLEAN", "VIOLATIONS_BLOCKED"}
           /\ (pit_call' = NoCall /\ pit_report' = NoCall) =>
                /\ violations' = <<>>
                /\ call_count' = 0 ]_vars

\* a report on a validator with two calls behind it, one of which was logged
C30_Witness ==
      ( /\ pit_report # NoCall
        /\ pit_report.status = "VIOLATIONS_BLOCKED"
        /\ pit_report.total_calls = 2
        /\ Len(violations) = 1
        /\ ~is_clean )

(***************************************************************************)
(* C26.  For every fold the harness trains on, every training row's date   *)
(* is strictly earlier than every test row's date, for any table the       *)
(* harness accepts, one that supplies its own season column included.      *)
(***************************************************************************)
C26_TrainDatesBeforeTestDates ==
    harness.pc \in {"folded", "done"} =>
        \A k \in 1 .. Len(harness.folds) :
            \A i \in 1 .. Len(harness.folds[k].train_df) :
                \A j \in 1 .. Len(harness.folds[k].test_df) :
                    harness.folds[k].train_df[i].date < harness.folds[k].test_df[j].date

(***************************************************************************)
(* C29.  Within one run, for any test-season list, each match_id appears   *)
(* in at most one prediction record, the record's test_season is the       *)
(* match's own season, and no fold scores a match that is also in its      *)
(* training subset.                                                        *)
(***************************************************************************)
C29_MatchScoredOnce ==
    harness.pc = "done" =>
        LET preds == harness.result.predictions IN
        /\ \A i, j \in 1 .. Len(preds) :
              i # j => preds[i].match_id # preds[j].match_id
        /\ \A i \in 1 .. Len(preds) :
              \A r \in 1 .. Len(harness.dataset.rows) :
                  harness.dataset.rows[r].match_id = preds[i].match_id =>
                      preds[i].test_season = harness.dataset.rows[r].season
        /\ \A k \in 1 .. Len(harness.folds) :
              \A i \in 1 .. Len(harness.folds[k].train_df) :
                  \A j \in 1 .. Len(harness.folds[k].test_df) :
                      harness.folds[k].train_df[i].match_id
                          # harness.folds[k].test_df[j].match_id

\* the threshold the claim has a call work with: the argument whenever one is
\* supplied, the configuration value when it is omitted
SuppliedOrConfig(arg, config_value) == IF arg = None THEN config_value ELSE arg

(***************************************************************************)
(* C27.  Both fold generators apply a supplied min_train_seasons or        *)
(* min_test_matches argument for every integer value, 0 included, and fall *)
(* back to the configuration value only when the argument is omitted; with *)
(* no explicit season list the folds are then exactly the seasons meeting  *)
(* both thresholds, in ascending season order.                             *)
(***************************************************************************)
C27_SuppliedThresholdsApplied ==
    ( /\ fold_call.op # "none"
      /\ fold_call.df.has_season
      /\ fold_call.test_seasons = NoneList
      /\ ~fold_call.result.raised ) =>
        LET avail == AvailableSeasons(fold_call.df)
            need_train == IF fold_call.op = "rolling" THEN fold_call.train_window
                          ELSE SuppliedOrConfig(fold_call.min_train_arg,
                                                fold_call.config.min_train_seasons)
            need_test == SuppliedOrConfig(fold_call.min_test_arg,
                                          fold_call.config.min_test_matches)
            meeting == {s \in avail :
                          /\ PriorCount(avail, s) >= need_train
                          /\ Len(SeasonRows(fold_call.df, s)) >= need_test}
        IN  [k \in 1 .. Len(fold_call.result.folds) |->
                fold_call.result.folds[k].test_season] = SortedSeq(meeting)

\* a side's prior games for the call at hand: its history as fetched through the
\* cutoff filter, most recent first
SideHistory(side) ==
    _get_team_history(fe_data,
                      IF side = "home" THEN fe_call.match.home_team
                      ELSE fe_call.match.away_team,
                      ToDatetime(fe_call.match.date))

SideStats(side, k) ==
    IF side = "home" THEN fe_call.features.home[k] ELSE fe_call.features.away[k]

\* the number of games window k holds for a side
WindowGames(side, k) ==
    IF fe_config.rolling_windows[k] < Len(SideHistory(side))
    THEN fe_config.rolling_windows[k] ELSE Len(SideHistory(side))

\* the mean of a column over the games window k holds, as <<sum, count>>
WindowMean(side, k, col) ==
    LET held == SubSeq(SideHistory(side), 1, WindowGames(side, k)) IN
    <<SumSeq([i \in 1 .. Len(held) |->
                IF col = "pf" THEN held[i].points_for
                ELSE IF col = "pa" THEN held[i].points_against
                ELSE IF col = "margin" THEN held[i].points_for - held[i].points_against
                ELSE IF held[i].points_for > held[i].points_against THEN 1 ELSE 0]),
      Len(held)>>

StatOf(st, col) ==
    IF col = "pf" THEN st.pf ELSE IF col = "pa" THEN st.pa
    ELSE IF col = "margin" THEN st.margin ELSE st.win_rate

StatNames == {"pf", "pa", "margin", "win_rate"}

\* the games count, the values of the non-null statistics, and the differentials
RollingValuesAndDifferentials ==
    \A k \in 1 .. Len(fe_config.rolling_windows) :
        /\ \A side \in {"home", "away"} :
              /\ SideStats(side, k).games = WindowGames(side, k)
              /\ \A col \in StatNames :
                    StatOf(SideStats(side, k), col) # NoMean =>
                        StatOf(SideStats(side, k), col) = WindowMean(side, k, col)
        /\ \A col \in StatNames :
              LET h == StatOf(SideStats("home", k), col)
                  a == StatOf(SideStats("away", k), col)
                  d == StatOf(fe_call.features.diff[k], col)
              IN  /\ d # NoMean <=> (h # NoMean /\ a # NoMean)
                  /\ d # NoMean => d = <<h[1] * a[2] - a[1] * h[2], h[2] * a[2]>>

MetricCalled(op) == metric_call # NoCall /\ metric_call.op = op

MissingOrAtMostOne(h, a) == h = None \/ a = None \/ h <= OddsOne \/ a <= OddsOne

\* (1/own) / (1/own + 1/other) in closed form, an infinite price having no share
FairShare(own, other) ==
    IF own = Inf THEN FracZero
    ELSE IF other = Inf THEN FracUnit
    ELSE Frac(other, own + other)

DevigAsClaimed(h, a, r, none_case) ==
    /\ (r = <<NoProb, NoProb>>) <=> none_case
    /\ ~none_case =>
          /\ r = <<FairShare(h, a), FairShare(a, h)>>
          /\ FracAdd(r[1], r[2]) = FracUnit
    /\ (h = 20 /\ a = 20) => r = <<ProbOf(ProbHalf), ProbOf(ProbHalf)>>

\* C22 as stated: devig_odds(h, a) is (None, None) exactly when a value is missing
\* or at most 1.0; otherwise it is the pair of inverse odds divided by their sum,
\* which adds up to 1, and devig_odds(2.0, 2.0) is (0.5, 0.5).
C22_DevigNoneIffMissingOrAtMostOne ==
    MetricCalled("devig_odds") =>
        DevigAsClaimed(metric_call.home_odds, metric_call.away_odds, metric_call.result,
                       MissingOrAtMostOne(metric_call.home_odds, metric_call.away_odds))

\* C22 amended: devig_odds(h, a) is (None, None) exactly when a value is missing
\* or at most 1.0, or both values are infinite; otherwise it is the pair of
\* inverse odds divided by their sum, which adds up to 1, and
\* devig_odds(2.0, 2.0) is (0.5, 0.5).
C22_DevigNoneIffNoPositiveTotal ==
    MetricCalled("devig_odds") =>
        DevigAsClaimed(metric_call.home_odds, metric_call.away_odds, metric_call.result,
                       \/ MissingOrAtMostOne(metric_call.home_odds, metric_call.away_odds)
                       \/ (metric_call.home_odds = Inf /\ metric_call.away_odds = Inf))

C22_Witness ==
    /\ MetricCalled("devig_odds")
    /\ metric_call.home_odds = 20
    /\ metric_call.away_odds = 20
    /\ metric_call.result = <<ProbOf(ProbHalf), ProbOf(ProbHalf)>>

\* the rows of a table that carry both a prediction and an outcome
ScoredRows(df) ==
    SelectSeq(df.rows, LAMBDA r : r[ProbCol] # NoVal /\ r[OutcomeCol] # NoVal)

\* the mean of (p - y)^2 over the rows, p in hundredths
MeanSquaredDifference(d) ==
    Frac(SumSeq([i \in 1 .. Len(d) |->
             (d[i][ProbCol] - ProbOne * d[i][OutcomeCol])
               * (d[i][ProbCol] - ProbOne * d[i][OutcomeCol])]),
         ProbOne * ProbOne * Len(d))

\* the Brier score of forecasting the share of home wins, wins / n, for every row
BaseRateForecastBrier(d) ==
    LET n == Len(d)
        wins == SumSeq([i \in 1 .. n |-> d[i][OutcomeCol]])
    IN  Frac(SumSeq([i \in 1 .. n |->
                 (wins - n * d[i][OutcomeCol]) * (wins - n * d[i][OutcomeCol])]),
             n * n * n)

BrierReturned ==
    /\ MetricCalled("compute_brier")
    /\ ~metric_call.result.raised
    /\ "error" \notin DOMAIN metric_call.result.value

\* C23: compute_brier returns the mean squared difference between prediction and
\* outcome, and a skill of 1 - brier / (Brier score of the base-rate forecast);
\* predictions equal to the outcomes [1, 0, 1, 0] give brier 0.0 and skill 1.0,
\* predictions of 0.5 on the balanced outcomes give brier 0.25.
C23_BrierAndSkill ==
    /\ BrierReturned =>
          LET d == ScoredRows(metric_call.df)
              value == metric_call.result.value
          IN  /\ value.brier = MeanSquaredDifference(d)
              /\ FracPos(BaseRateForecastBrier(d)) =>
                    value.brier_skill =
                        FracSub(FracUnit, FracDiv(MeanSquaredDifference(d),
                                                  BaseRateForecastBrier(d)))
    /\ MetricCalled("compute_brier") /\ metric_call.df = PerfectTable =>
          /\ BrierReturned
          /\ metric_call.result.value.brier = FracZero
          /\ metric_call.result.value.brier_skill = FracUnit
    /\ MetricCalled("compute_brier") /\ metric_call.df = CoinFlipTable =>
          /\ BrierReturned
          /\ metric_call.result.value.brier = <<1, 4>>

C23_Witness ==
    /\ BrierReturned
    /\ metric_call.df = PerfectTable
    /\ metric_call.result.value.brier = FracZero
    /\ metric_call.result.value.brier_skill = FracUnit

MetricFunctions ==
    {"compute_brier", "compute_auc", "compute_accuracy", "compute_calibration",
     "compute_clv", "compute_market_baseline"}

\* the columns a metric function reads
ColumnsRead(op) ==
    IF op = "compute_clv" THEN {ProbCol, HomeOddsCol, AwayOddsCol}
    ELSE IF op = "compute_market_baseline" THEN {HomeOddsCol, AwayOddsCol, OutcomeCol}
    ELSE {ProbCol, OutcomeCol}

ValidOddsRows(df) ==
    SelectSeq(df.rows, LAMBDA r : /\ r[HomeOddsCol] # NoVal /\ r[HomeOddsCol] > OddsOne
                                  /\ r[AwayOddsCol] # NoVal /\ r[AwayOddsCol] > OddsOne)

\* degenerate input of a metric function: no data, a missing column, outcomes of
\* one class for the AUC, too few rows with valid odds for the market metrics
Degenerate(op, df) ==
    \/ df.rows = <<>>
    \/ ~(ColumnsRead(op) \subseteq df.columns)
    \/ op = "compute_auc"
          /\ Cardinality({ScoredRows(df)[i][OutcomeCol] : i \in 1 .. Len(ScoredRows(df))}) < 2
    \/ op = "compute_clv"
          /\ SelectSeq(ValidOddsRows(df), LAMBDA r : r[ProbCol] # NoVal) = <<>>
    \/ op = "compute_market_baseline" /\ Len(ValidOddsRows(df)) < MinBaselineRows

\* C21: on degenerate input every metric function returns, without raising, a
\* result with an error field, and compute_all_metrics always returns.
C21_MetricsReportErrorsNeverRaise ==
    /\ metric_call # NoCall /\ metric_call.op \in MetricFunctions
          /\ Degenerate(metric_call.op, metric_call.df) =>
             /\ ~metric_call.result.raised
             /\ "error" \in DOMAIN metric_call.result.value
    /\ MetricCalled("compute_all_metrics") => ~metric_call.result.raised

(***************************************************************************)
(* The saved summary.                                                      *)
(***************************************************************************)
\* C24: the summary record save_artifacts writes holds the orientation report,
\* the per-fold results, the whole metrics dictionary and every feature column
\* of the run, in order.
C24_SummaryHoldsWholeBundle ==
    harness.pc = "saved" =>
        /\ harness.summary.odds_report = harness.result.odds_report
        /\ harness.summary.fold_results = harness.result.fold_results
        /\ harness.summary.metrics = harness.result.metrics
        /\ harness.summary.feature_columns = harness.result.feature_columns
====
